----------------------- MODULE ProductionState_proofs -----------------------
(***************************************************************************)
(* Theorems about ProductionState and ProductionSearch, for any nodes,     *)
(* identities and number of revisions.                                     *)
(*                                                                         *)
(* That no node is downstream of itself is proved from a statement without *)
(* paths: every set of nodes has one with no upstream in the set.          *)
(*                                                                         *)
(* Each search is a run of its loop.  A turn keeps what makes its result   *)
(* right, and brings it one nearer to its end: stale_nodes has returned    *)
(* one node less than it took from the queue and has still in it, and the  *)
(* stack of _would_cycle has a place for each link of a visited node.      *)
(***************************************************************************)
EXTENDS ProductionSearch, Recursion_proofs, SequenceTheorems, TLAPS

WellFounded ==
  \A S \in SUBSET Node : S # {} =>
    \E n \in S : \A e \in dependencies : e.downstream = n => e.upstream \notin S

StateInv == StateTypeOK /\ WellFounded

-----------------------------------------------------------------------------
(* Steps                                                                   *)

\* Known nodes stay known and their revisions only grow, dependencies are only
\* added.
LEMMA OnlyForward ==
  ASSUME StateTypeOK, StateNext
  PROVE  /\ Known \subseteq Known'
         /\ \A n \in Known : nodes'[n].revision >= nodes[n].revision
         /\ dependencies \subseteq dependencies'
<1>1. CASE \E n \in Node, revision \in Revision : \E identity \in Identities[n] :
             AddNode(n, identity, revision)
  <2>0. PICK n \in Node, revision \in Revision :
          \E identity \in Identities[n] : AddNode(n, identity, revision)
    BY <1>1
  <2>1. PICK identity \in Identities[n] : AddNode(n, identity, revision)
    BY <2>0
  <2>2. identity \in [kind : Kind, episode : Node \cup {None}]
    BY NodeAssumption
  <2>3. [kind |-> identity.kind, episode |-> identity.episode, revision |-> revision] \in StateNode
    BY <2>2 DEF StateNode
  <2>4. nodes'[n] \in StateNode /\ nodes'[n].revision = revision
    BY <2>1, <2>3 DEF AddNode, StateTypeOK
  <2>5. \A m \in Node \ {n} : nodes'[m] = nodes[m]
    BY <2>1 DEF AddNode, StateTypeOK
  <2>6. Known \subseteq Known'
    BY <2>4, <2>5, NodeAssumption DEF Known
  <2>7. \A m \in Known : nodes[m].revision \in Int
    BY DEF Known, StateTypeOK, StateNode, Revision
  <2>8. n \in Known => revision > nodes[n].revision
    BY <2>1 DEF AddNode, Newer
  <2>9. \A m \in Known : nodes'[m].revision >= nodes[m].revision
    BY <2>4, <2>5, <2>7, <2>8 DEF Known, Revision
  <2> QED
    BY <2>1, <2>6, <2>9 DEF AddNode
<1>2. CASE \E u, d \in Node : AddDependency(u, d)
  <2>1. UNCHANGED nodes /\ dependencies \subseteq dependencies'
    BY <1>2 DEF AddDependency
  <2>2. \A m \in Known : nodes[m].revision \in Int
    BY DEF Known, StateTypeOK, StateNode, Revision
  <2> QED
    BY <2>1, <2>2 DEF Known
<1> QED
  BY <1>1, <1>2 DEF StateNext

\* A new dependency is on the latest revision of a known node.
LEMMA RecordedIsDependency ==
  ASSUME StateTypeOK, NEW u \in Known, NEW d \in Known
  PROVE  /\ Recorded(u, d) \in Dependency
         /\ Recorded(u, d).upstream = u /\ Recorded(u, d).downstream = d
         /\ Recorded(u, d).revision = nodes[u].revision
<1>1. u \in Node /\ d \in Node /\ nodes[u] \in StateNode
  BY DEF Known, StateTypeOK
<1> QED
  BY <1>1 DEF Recorded, Dependency, StateNode

\* A new node, a revision and a new dependency are of their types.
LEMMA TypeStep ==
  ASSUME StateTypeOK, [StateNext]_svars
  PROVE  StateTypeOK'
<1>1. CASE UNCHANGED svars
  BY <1>1 DEF svars, StateTypeOK, Known
<1>2. CASE \E n \in Node, revision \in Revision : \E identity \in Identities[n] :
             AddNode(n, identity, revision)
  <2>0. PICK n \in Node, revision \in Revision :
          \E identity \in Identities[n] : AddNode(n, identity, revision)
    BY <1>2
  <2>1. PICK identity \in Identities[n] : AddNode(n, identity, revision)
    BY <2>0
  <2>2. identity \in [kind : Kind, episode : Node \cup {None}]
    BY NodeAssumption
  <2>3. nodes' \in [Node -> StateNode \cup {None}]
    BY <2>1, <2>2 DEF AddNode, StateTypeOK, StateNode
  <2>4. \A e \in dependencies' : e \in dependencies
    BY <2>1 DEF AddNode
  <2>5. StateNext
    BY <1>2 DEF StateNext
  <2>6. ASSUME NEW e \in dependencies'
        PROVE  /\ e.upstream \in Known' /\ e.downstream \in Known'
               /\ e.revision <= nodes'[e.upstream].revision
    <3>1. /\ e.upstream \in Known /\ e.downstream \in Known
          /\ e.revision <= nodes[e.upstream].revision
      BY <2>4 DEF StateTypeOK
    <3>2. e.upstream \in Known' /\ e.downstream \in Known'
      BY <3>1, <2>5, OnlyForward
    <3>3. nodes'[e.upstream].revision >= nodes[e.upstream].revision
      BY <3>1, <2>5, OnlyForward
    <3>4. e.revision \in Int /\ nodes[e.upstream].revision \in Int
      BY <2>4, <3>1 DEF StateTypeOK, Dependency, StateNode, Revision, Known
    <3>5. nodes'[e.upstream].revision \in Int
      BY <2>3, <3>2 DEF StateNode, Revision, Known
    <3> QED
      BY <3>1, <3>2, <3>3, <3>4, <3>5
  <2>7. dependencies' \subseteq Dependency
    BY <2>4 DEF StateTypeOK
  <2> QED
    BY <2>3, <2>6, <2>7 DEF StateTypeOK
<1>3. CASE \E u, d \in Node : AddDependency(u, d)
  <2>1. PICK u \in Node, d \in Node : AddDependency(u, d)
    BY <1>3
  <2>2. u \in Known /\ d \in Known /\ UNCHANGED nodes
        /\ dependencies' = dependencies \cup {Recorded(u, d)}
    BY <2>1 DEF AddDependency
  <2>3. nodes[u].revision \in Int
    BY <2>2 DEF Known, StateTypeOK, StateNode, Revision
  <2> QED
    BY <2>2, <2>3, RecordedIsDependency DEF StateTypeOK, Known
<1> QED
  BY <1>1, <1>2, <1>3 DEF StateNext

\* A dependency that closes no path keeps the graph well founded: the nodes
\* outside a closed set with d but without u see no new dependency within, and
\* inside of it the new one has no upstream.
LEMMA WellFoundedStep ==
  ASSUME StateTypeOK, WellFounded, [StateNext]_svars
  PROVE  WellFounded'
<1>1. CASE dependencies' = dependencies
  BY <1>1 DEF WellFounded
<1>2. CASE \E u, d \in Node : AddDependency(u, d)
  <2>1. PICK u \in Node, d \in Node : AddDependency(u, d)
    BY <1>2
  <2>2. u \in Known /\ d \in Known /\ ~WouldCycle(u, d)
        /\ dependencies' = dependencies \cup {Recorded(u, d)}
    BY <2>1 DEF AddDependency
  <2>3. PICK C \in SUBSET Node : d \in C /\ Closed(C) /\ u \notin C
    BY <2>2 DEF WouldCycle, Reachable
  <2> DEFINE new == Recorded(u, d)
  <2>4. new.upstream = u /\ new.downstream = d
    BY <2>2, RecordedIsDependency
  <2> HIDE DEF new
  <2>5. dependencies' = dependencies \cup {new}
    BY <2>2 DEF new
  <2>6. \A e \in dependencies : e.upstream \in C => e.downstream \in C
    BY <2>3 DEF Closed
  <2>7. SUFFICES ASSUME NEW S \in SUBSET Node, S # {}
                 PROVE  \E n \in S : \A e \in dependencies' :
                          e.downstream = n => e.upstream \notin S
    BY DEF WellFounded
  <2>8. CASE S \ C # {}
    <3>1. PICK n \in S \ C : \A e \in dependencies : e.downstream = n => e.upstream \notin S \ C
      BY <2>8 DEF WellFounded
    <3>2. \A e \in dependencies : e.downstream = n => e.upstream \notin S
      BY <3>1, <2>6
    <3>3. new.downstream # n
      BY <3>1, <2>3, <2>4
    <3> QED
      BY <3>1, <3>2, <3>3, <2>5
  <2>9. CASE S \subseteq C
    <3>1. PICK n \in S : \A e \in dependencies : e.downstream = n => e.upstream \notin S
      BY <2>7 DEF WellFounded
    <3>2. new.upstream \notin S
      BY <2>9, <2>3, <2>4
    <3> QED
      BY <3>1, <3>2, <2>5
  <2> QED
    BY <2>8, <2>9
<1> QED
  BY <1>1, <1>2 DEF StateNext, AddNode, svars

\* The records are well formed, dependencies link known nodes, and none names a
\* revision that is still to come.
THEOREM StateTypeCorrect == StateSpec => []StateTypeOK
<1>1. StateInit => StateTypeOK
  BY DEF StateInit, StateTypeOK
<1>2. StateTypeOK /\ [StateNext]_svars => StateTypeOK'
  BY TypeStep
<1> QED
  BY <1>1, <1>2, PTL DEF StateSpec

\* The inductive invariant: types, and no set of nodes without a source.
LEMMA StateInvariant == StateSpec => []StateInv
<1>1. StateInit => StateInv
  <2>1. StateInit => StateTypeOK
    BY DEF StateInit, StateTypeOK
  <2>2. StateInit => WellFounded
    BY DEF StateInit, WellFounded
  <2> QED
    BY <2>1, <2>2 DEF StateInv
<1>2. StateInv /\ [StateNext]_svars => StateInv'
  BY TypeStep, WellFoundedStep DEF StateInv
<1> QED
  BY <1>1, <1>2, PTL DEF StateSpec

-----------------------------------------------------------------------------
(* No cycles                                                               *)

\* Below a node, whatever is reachable but the node itself has an upstream that
\* is reachable too.
LEMMA ReachableHasUpstream ==
  ASSUME NEW d \in Node, NEW x \in Reachable(d), x # d, StateTypeOK
  PROVE  \E e \in dependencies : e.downstream = x /\ e.upstream \in Reachable(d)
<1> DEFINE R == Reachable(d)
<1>1. SUFFICES ASSUME \A e \in dependencies : e.downstream = x => e.upstream \notin R
               PROVE  FALSE
  OBVIOUS
<1>2. R \subseteq Node /\ x \in Node
  BY DEF Reachable
<1>3. d \in R
  BY DEF Reachable
<1>4. \A e \in dependencies : e.upstream \in R => e.downstream \in R
  <2>1. SUFFICES ASSUME NEW e \in dependencies, e.upstream \in R
                 PROVE  e.downstream \in R
    OBVIOUS
  <2>2. e.downstream \in Node
    BY DEF StateTypeOK, Dependency
  <2>3. \A S \in SUBSET Node : d \in S /\ Closed(S) => e.downstream \in S
    BY <2>1 DEF Reachable, Closed
  <2> QED
    BY <2>2, <2>3 DEF Reachable
<1>5. Closed(R \ {x})
  BY <1>1, <1>4 DEF Closed
<1>6. x \in R \ {x}
  BY <1>2, <1>3, <1>5 DEF Reachable
<1> QED
  BY <1>6

\* A node below itself would be in a set of nodes without a source.
LEMMA NoNodeBelowItself ==
  ASSUME StateInv
  PROVE  ChangedIsNotStale
<1>1. SUFFICES ASSUME NEW n \in Node, n \in StaleNodes(n)
               PROVE  FALSE
  BY DEF ChangedIsNotStale
<1>2. PICK f \in dependencies : f.upstream = n /\ n \in Reachable(f.downstream)
  BY <1>1 DEF StaleNodes, DependentsOf
<1> DEFINE d == f.downstream
           S == {x \in Reachable(d) : n \in Reachable(x)}
<1>3. d \in Node
  BY DEF StateInv, StateTypeOK, Dependency
<1>4. S \in SUBSET Node
  BY DEF Reachable
<1>5. n \in Reachable(n) /\ d \in Reachable(d)
  BY <1>3 DEF Reachable
<1>6. n \in S
  BY <1>2, <1>5
<1>7. ASSUME NEW x \in S
      PROVE  \E e \in dependencies : e.downstream = x /\ e.upstream \in S
  <2>1. CASE x = d
    BY <2>1, <1>2, <1>6
  <2>2. CASE x # d
    <3>1. PICK e \in dependencies : e.downstream = x /\ e.upstream \in Reachable(d)
      BY <2>2, <1>3, ReachableHasUpstream DEF StateInv
    <3>2. n \in Reachable(e.upstream)
      <4>1. ASSUME NEW T \in SUBSET Node, e.upstream \in T, Closed(T)
            PROVE  n \in T
        <5>1. x \in T
          BY <3>1, <4>1 DEF Closed
        <5> QED
          BY <5>1, <4>1 DEF Reachable
      <4> QED
        BY <4>1 DEF Reachable
    <3> QED
      BY <3>1, <3>2
  <2> QED
    BY <2>1, <2>2
<1> QED
  BY <1>4, <1>6, <1>7 DEF StateInv, WellFounded

\* In whatever order dependencies are recorded, no node is downstream of itself,
\* so stale_nodes never returns the changed node.
THEOREM NeverDownstreamOfItself == StateSpec => []ChangedIsNotStale
<1>1. StateInv => ChangedIsNotStale
  BY NoNodeBelowItself
<1> QED
  BY <1>1, StateInvariant, PTL

-----------------------------------------------------------------------------
(* Staleness                                                               *)

\* What is stale stays so: the revision a dependency names is behind for good.
LEMMA StaleStays ==
  ASSUME StateTypeOK, StateNext, NEW n \in Known, ~Current(n)
  PROVE  ~Current(n)'
<1>1. PICK e \in dependencies :
        e.downstream = n /\ ~(e.upstream \in Known /\ nodes[e.upstream].revision = e.revision)
  BY DEF Current
<1>2. e.upstream \in Known /\ e.revision < nodes[e.upstream].revision
  <2>1. e.upstream \in Known /\ e.revision <= nodes[e.upstream].revision
    BY DEF StateTypeOK
  <2>2. e.revision \in Int /\ nodes[e.upstream].revision \in Int
    BY <2>1 DEF StateTypeOK, Dependency, StateNode, Revision, Known
  <2> QED
    BY <1>1, <2>1, <2>2
<1>3. e \in dependencies' /\ nodes'[e.upstream].revision >= nodes[e.upstream].revision
  BY <1>2, OnlyForward
<1>4. StateTypeOK'
  BY TypeStep
<1>5. /\ e.revision \in Int /\ nodes[e.upstream].revision \in Int
      /\ nodes'[e.upstream].revision \in Int
  <2>1. e.upstream \in Known'
    BY <1>3, <1>4 DEF StateTypeOK
  <2>2. nodes'[e.upstream] \in StateNode
    BY <2>1, <1>4 DEF StateTypeOK, Known
  <2>3. nodes[e.upstream] \in StateNode
    BY <1>2 DEF StateTypeOK, Known
  <2> QED
    BY <2>2, <2>3 DEF StateTypeOK, Dependency, StateNode, Revision
<1>6. nodes'[e.upstream].revision # e.revision
  BY <1>2, <1>3, <1>5
<1> QED
  BY <1>1, <1>3, <1>6 DEF Current

\* Why RebuiltIsCurrent fails, in any graph: a node assert_current has refused once
\* is refused for ever, whatever new revisions and dependencies are recorded, because
\* the dependency on the old revision is never taken away.
THEOREM StaleForEver == StateSpec => [][\A n \in Known : ~Current(n) => ~Current(n)']_svars
<1>1. StateTypeOK /\ [StateNext]_svars => [\A n \in Known : ~Current(n) => ~Current(n)']_svars
  <2>1. SUFFICES ASSUME StateTypeOK, StateNext
                 PROVE  \A n \in Known : ~Current(n) => ~Current(n)'
    OBVIOUS
  <2> QED
    BY <2>1, StaleStays
<1> QED
  BY <1>1, StateTypeCorrect, PTL DEF StateSpec

\* Only a revision of a direct upstream makes a current node stale.
LEMMA StaleBecomes ==
  ASSUME StateTypeOK, StateNext, NEW n \in Node, Current(n), ~Current(n)'
  PROVE  \E u \in Known : nodes'[u] # nodes[u] /\ n \in StaleNodes(u)
<1>1. CASE \E m \in Node, revision \in Revision : \E identity \in Identities[m] :
             AddNode(m, identity, revision)
  <2>1. UNCHANGED dependencies
    BY <1>1 DEF AddNode
  <2>2. n \in Known'
    BY OnlyForward DEF Current
  <2>3. PICK e \in dependencies :
          /\ e.downstream = n
          /\ ~(e.upstream \in Known' /\ nodes'[e.upstream].revision = e.revision)
    BY <2>1, <2>2 DEF Current
  <2>4. e.upstream \in Known /\ nodes[e.upstream].revision = e.revision
    BY <2>3 DEF Current
  <2>5. e.upstream \in Known'
    BY <2>4, OnlyForward
  <2>6. nodes'[e.upstream] # nodes[e.upstream]
    BY <2>3, <2>4, <2>5
  <2>7. n \in DependentsOf(e.upstream) /\ n \in Reachable(n)
    BY <2>3 DEF DependentsOf, Reachable
  <2> QED
    BY <2>4, <2>6, <2>7 DEF StaleNodes
<1>2. CASE \E u, d \in Node : AddDependency(u, d)
  <2>1. PICK u \in Node, d \in Node : AddDependency(u, d)
    BY <1>2
  <2>2. u \in Known /\ d \in Known /\ UNCHANGED nodes
        /\ dependencies' = dependencies \cup {Recorded(u, d)}
    BY <2>1 DEF AddDependency
  <2>3. Recorded(u, d).upstream = u /\ Recorded(u, d).revision = nodes[u].revision
    BY <2>2, RecordedIsDependency
  <2>4. Current(n)'
    BY <2>2, <2>3 DEF Current, Known
  <2> QED
    BY <2>4
<1> QED
  BY <1>1, <1>2 DEF StateNext

\* Whatever a call makes stale, stale_nodes of the revised node returns.
THEOREM StaleReported == StateSpec => StaleIsReported
<1>1. StateTypeOK /\ [StateNext]_svars =>
        [\A n \in Node : Current(n) /\ ~Current(n)' =>
           \E u \in Known : nodes'[u] # nodes[u] /\ n \in StaleNodes(u)]_svars
  <2>1. SUFFICES ASSUME StateTypeOK, StateNext, NEW n \in Node, Current(n), ~Current(n)'
                 PROVE  \E u \in Known : nodes'[u] # nodes[u] /\ n \in StaleNodes(u)
    OBVIOUS
  <2> QED
    BY <2>1, StaleBecomes
<1> QED
  BY <1>1, StateTypeCorrect, PTL DEF StateSpec, StaleIsReported

-----------------------------------------------------------------------------
(* Sequences as queues and stacks                                          *)

\* What is in two sequences, one after the other.
LEMMA ToSetOfConcat ==
  ASSUME NEW S, NEW s \in Seq(S), NEW t \in Seq(S)
  PROVE  ToSet(s \o t) = ToSet(s) \cup ToSet(t)
<1>1. /\ s \o t \in Seq(S) /\ Len(s \o t) = Len(s) + Len(t)
      /\ Len(s) \in Nat /\ Len(t) \in Nat
      /\ \A i \in 1..Len(s) + Len(t) : (s \o t)[i] = IF i <= Len(s) THEN s[i] ELSE t[i - Len(s)]
  BY ConcatProperties, LenProperties
<1>2. DOMAIN s = 1..Len(s) /\ DOMAIN t = 1..Len(t) /\ DOMAIN (s \o t) = 1..Len(s) + Len(t)
  BY <1>1, LenProperties
<1>3. ASSUME NEW i \in 1..Len(s) PROVE s[i] \in ToSet(s \o t)
  <2>1. i \in 1..Len(s) + Len(t) /\ (s \o t)[i] = s[i]  BY <1>1
  <2> QED  BY <1>2, <2>1 DEF ToSet
<1>4. ASSUME NEW i \in 1..Len(t) PROVE t[i] \in ToSet(s \o t)
  <2>1. Len(s) + i \in 1..Len(s) + Len(t) /\ ~(Len(s) + i <= Len(s)) /\ (Len(s) + i) - Len(s) = i
    BY <1>1
  <2>2. (s \o t)[Len(s) + i] = t[i]  BY <1>1, <2>1
  <2> QED  BY <1>2, <2>1, <2>2 DEF ToSet
<1>5. ASSUME NEW i \in 1..Len(s) + Len(t) PROVE (s \o t)[i] \in ToSet(s) \cup ToSet(t)
  <2>1. CASE i <= Len(s)
    <3>1. i \in 1..Len(s) /\ (s \o t)[i] = s[i]  BY <1>1, <2>1
    <3> QED  BY <1>2, <3>1 DEF ToSet
  <2>2. CASE ~(i <= Len(s))
    <3>1. i - Len(s) \in 1..Len(t) /\ (s \o t)[i] = t[i - Len(s)]  BY <1>1, <2>2
    <3> QED  BY <1>2, <3>1 DEF ToSet
  <2> QED  BY <2>1, <2>2
<1>6. ToSet(s \o t) \subseteq ToSet(s) \cup ToSet(t)  BY <1>2, <1>5 DEF ToSet
<1>7. ToSet(s) \subseteq ToSet(s \o t) /\ ToSet(t) \subseteq ToSet(s \o t)
  BY <1>2, <1>3, <1>4 DEF ToSet
<1> QED  BY <1>6, <1>7

\* A queue is its head and its tail.
LEMMA QueueParts ==
  ASSUME NEW S, NEW s \in Seq(S), s # <<>>
  PROVE  /\ Head(s) \in S /\ Tail(s) \in Seq(S) /\ Len(Tail(s)) = Len(s) - 1
         /\ ToSet(s) = {Head(s)} \cup ToSet(Tail(s))
<1>1. /\ Head(s) \in S /\ Tail(s) \in Seq(S) /\ Len(Tail(s)) = Len(s) - 1
      /\ \A i \in 1..Len(Tail(s)) : Tail(s)[i] = s[i + 1]
      /\ Head(s) = s[1] /\ Len(s) \in Nat /\ Len(s) # 0
  BY HeadTailProperties, LenProperties, EmptySeq
<1>2. DOMAIN s = 1..Len(s) /\ DOMAIN Tail(s) = 1..Len(s) - 1  BY <1>1, LenProperties
<1>3. ASSUME NEW i \in 1..Len(s) PROVE s[i] \in {Head(s)} \cup ToSet(Tail(s))
  <2>1. CASE i = 1  BY <1>1, <2>1
  <2>2. CASE i # 1
    <3>1. i - 1 \in 1..Len(s) - 1 /\ (i - 1) + 1 = i  BY <1>1, <2>2
    <3>2. Tail(s)[i - 1] = s[i]  BY <1>1, <3>1
    <3> QED  BY <1>2, <3>1, <3>2 DEF ToSet
  <2> QED  BY <2>1, <2>2
<1>4. ASSUME NEW i \in 1..Len(s) - 1 PROVE Tail(s)[i] \in ToSet(s)
  <2>1. i + 1 \in 1..Len(s) /\ Tail(s)[i] = s[i + 1]  BY <1>1
  <2> QED  BY <1>2, <2>1 DEF ToSet
<1>5. Head(s) \in ToSet(s)
  <2>1. 1 \in 1..Len(s)  BY <1>1
  <2> QED  BY <1>1, <1>2, <2>1 DEF ToSet
<1>6. ToSet(s) \subseteq {Head(s)} \cup ToSet(Tail(s))  BY <1>2, <1>3 DEF ToSet
<1>7. ToSet(Tail(s)) \subseteq ToSet(s)  BY <1>2, <1>4 DEF ToSet
<1> QED  BY <1>1, <1>5, <1>6, <1>7

\* A stack is its top and the rest.
LEMMA StackParts ==
  ASSUME NEW S, NEW s \in Seq(S), s # <<>>
  PROVE  /\ Last(s) \in S /\ Front(s) \in Seq(S) /\ Len(Front(s)) = Len(s) - 1
         /\ ToSet(s) = {Last(s)} \cup ToSet(Front(s))
<1> DEFINE n == Len(s)
<1>1. n \in Nat /\ n # 0 /\ DOMAIN s = 1..n /\ \A i \in 1..n : s[i] \in S
  BY LenProperties, EmptySeq, ElementOfSeq
<1>2. \A i \in 1..n - 1 : s[i] \in S  BY <1>1
<1>3. 1 \in Int /\ n - 1 \in Int  BY <1>1
<1> HIDE DEF n
<1>4. /\ SubSeq(s, 1, n - 1) \in Seq(S)
      /\ Len(SubSeq(s, 1, n - 1)) = IF 1 <= n - 1 THEN (n - 1) - 1 + 1 ELSE 0
      /\ \A i \in 1..(n - 1) - 1 + 1 : SubSeq(s, 1, n - 1)[i] = s[1 + i - 1]
  BY <1>2, <1>3, SubSeqProperties
<1>5. Front(s) \in Seq(S) /\ Len(Front(s)) = n - 1  BY <1>1, <1>4 DEF Front, n
<1>6. \A i \in 1..n - 1 : Front(s)[i] = s[i]
  <2>1. ASSUME NEW i \in 1..n - 1 PROVE Front(s)[i] = s[i]
    <3>1. i \in 1..(n - 1) - 1 + 1 /\ 1 + i - 1 = i  BY <1>1
    <3> QED  BY <1>4, <3>1 DEF Front, n
  <2> QED  BY <2>1
<1>7. DOMAIN Front(s) = 1..n - 1  BY <1>5, LenProperties
<1>8. Last(s) = s[n] /\ n \in 1..n  BY <1>1 DEF Last, n
<1>9. ASSUME NEW i \in 1..n PROVE s[i] \in {Last(s)} \cup ToSet(Front(s))
  <2>1. CASE i = n  BY <1>8, <2>1
  <2>2. CASE i # n
    <3>1. i \in 1..n - 1  BY <1>1, <2>2
    <3> QED  BY <1>6, <1>7, <3>1 DEF ToSet
  <2> QED  BY <2>1, <2>2
<1>10. ToSet(s) \subseteq {Last(s)} \cup ToSet(Front(s))  BY <1>1, <1>9 DEF ToSet
<1>11. ASSUME NEW i \in 1..n - 1 PROVE Front(s)[i] \in ToSet(s)
  <2>1. i \in 1..n  BY <1>1
  <2> QED  BY <1>1, <1>6, <2>1 DEF ToSet
<1>12. Last(s) \in ToSet(s)  BY <1>1, <1>8 DEF ToSet
<1>13. ToSet(Front(s)) \subseteq ToSet(s)  BY <1>7, <1>11 DEF ToSet
<1>14. Last(s) \in S  BY <1>1, <1>8
<1> QED  BY <1>5, <1>10, <1>12, <1>13, <1>14 DEF n

-----------------------------------------------------------------------------
(* Dependents in order                                                     *)

\* s lists each member of T once.
Lists(s, T) ==
  /\ s \in Seq(T) /\ Len(s) = Cardinality(T) /\ ToSet(s) = T
  /\ \A i, j \in DOMAIN s : s[i] = s[j] => i = j

LEMMA OrderedLists ==
  ASSUME NEW T \in SUBSET Nat, IsFiniteSet(T)
  PROVE  Lists(InOrder(T), T) /\ Lists(SetToSeq(T), T)
<1> DEFINE n == Cardinality(T)
           Increasing(f) == \A i, j \in DOMAIN f : i < j => f[i] < f[j]
<1>1. n \in Nat  BY FS_CardinalityType
<1>2. \E f \in [1..n -> T] : \A i, j \in 1..n : i < j => f[i] < f[j]
  BY <1>1, ListedAll DEF Listed
<1>3. \E f \in [1..n -> T] : Increasing(f)  BY <1>2
<1>4. InOrder(T) \in [1..n -> T] /\ Increasing(InOrder(T))  BY <1>3 DEF InOrder
<1> HIDE DEF n, Increasing
<1>5. \A i, j \in 1..n : i < j => InOrder(T)[i] < InOrder(T)[j]  BY <1>4 DEF Increasing
<1>6. /\ \A i, j \in 1..n : InOrder(T)[i] = InOrder(T)[j] => i = j
      /\ \A x \in T : \E i \in 1..n : InOrder(T)[i] = x
  BY <1>4, <1>5, OrderedIsComplete DEF n
<1>7. InOrder(T) \in Seq(T) /\ Len(InOrder(T)) = n /\ DOMAIN InOrder(T) = 1..n  BY <1>1, <1>4
<1>8. Lists(InOrder(T), T)
  <2>1. \A i \in 1..n : InOrder(T)[i] \in T  BY <1>4
  <2>2. ToSet(InOrder(T)) = T  BY <1>6, <1>7, <2>1 DEF ToSet
  <2> QED  BY <1>6, <1>7, <2>2 DEF Lists, n
<1>9. IsInjective(InOrder(T))  BY <1>6, <1>7 DEF IsInjective
<1>10. SetToSeq(T) \in [1..n -> T] /\ IsInjective(SetToSeq(T))
  <2>1. \E f \in [1..n -> T] : IsInjective(f)  BY <1>4, <1>9
  <2> QED  BY <2>1 DEF SetToSeq, n
<1>11. SetToSeq(T) \in Seq(T) /\ Len(SetToSeq(T)) = n /\ DOMAIN SetToSeq(T) = 1..n
  BY <1>1, <1>10
<1>12. SetToSeq(T) \in Surjection(1..n, T)
  <2>1. SetToSeq(T) \in Injection(1..n, T)  BY <1>10, <1>11 DEF Injection, IsInjective
  <2>2. IsFiniteSet(1..n) /\ Cardinality(1..n) = n
    <3>1. 1 \in Int /\ n \in Int  BY <1>1
    <3>2. Cardinality(1..n) = IF 1 > n THEN 0 ELSE n - 1 + 1  BY <3>1, FS_Interval
    <3> QED  BY <1>1, <3>1, <3>2, FS_Interval
  <2> QED  BY <2>1, <2>2, FS_Injection DEF n
<1>13. ToSet(SetToSeq(T)) = T
  <2>1. \A i \in 1..n : SetToSeq(T)[i] \in T  BY <1>10
  <2>2. \A x \in T : \E i \in 1..n : SetToSeq(T)[i] = x  BY <1>12 DEF Surjection
  <2> QED  BY <1>11, <2>1, <2>2 DEF ToSet
<1> QED  BY <1>8, <1>10, <1>11, <1>13 DEF Lists, IsInjective, n

\* Dependents are known, and finitely many when few nodes are known.
LEMMA DependentsKnown ==
  ASSUME StateTypeOK, IsFiniteSet(Known), NEW u
  PROVE  /\ DependentsOf(u) \subseteq Known /\ IsFiniteSet(DependentsOf(u))
         /\ DependentsOf(u) # {} => u \in Known
<1>1. DependentsOf(u) \subseteq Known  BY DEF StateTypeOK, DependentsOf
<1>2. DependentsOf(u) # {} => u \in Known  BY DEF StateTypeOK, DependentsOf
<1> QED  BY <1>1, <1>2, FS_Subset

\* Whatever a dependency of a node reachable from d leads to is reachable from d.
LEMMA ReachableGoesOn ==
  ASSUME StateTypeOK, NEW d, NEW x \in Reachable(d), NEW y \in DependentsOf(x)
  PROVE  y \in Reachable(d)
<1>1. PICK e \in dependencies : e.upstream = x /\ e.downstream = y  BY DEF DependentsOf
<1>2. y \in Node  BY <1>1 DEF StateTypeOK, Dependency
<1>3. ASSUME NEW S \in SUBSET Node, d \in S, Closed(S) PROVE y \in S
  <2>1. x \in S  BY <1>3 DEF Reachable
  <2> QED  BY <1>1, <1>3, <2>1 DEF Closed
<1> QED  BY <1>2, <1>3 DEF Reachable

\* A set with d in which every dependent of its members is has all that is reachable.
LEMMA ReachableWithin ==
  ASSUME NEW d, NEW S \in SUBSET Node, d \in S, \A x \in S : DependentsOf(x) \subseteq S
  PROVE  Reachable(d) \subseteq S
<1>1. Closed(S)
  <2>1. ASSUME NEW e \in dependencies, e.upstream \in S PROVE e.downstream \in S
    <3>1. e.downstream \in DependentsOf(e.upstream)  BY DEF DependentsOf
    <3> QED  BY <2>1, <3>1
  <2> QED  BY <2>1 DEF Closed
<1> QED  BY <1>1 DEF Reachable

-----------------------------------------------------------------------------
(* stale_nodes                                                             *)

Invalidation == [node : Node, because : Node]
SearchState == [queue : Seq(Node), seen : SUBSET Known, found : Seq(Invalidation)]

\* What was found is what was seen, each node once.
FoundOnce(s) ==
  /\ \A i \in DOMAIN s.found : s.found[i].node \in s.seen
  /\ \A x \in s.seen : \E i \in DOMAIN s.found : s.found[i].node = x
  /\ \A i, j \in DOMAIN s.found : s.found[i].node = s.found[j].node => i = j
Reasoned(n, s) ==
  \A i \in DOMAIN s.found :
    /\ s.found[i].node \in DependentsOf(s.found[i].because)
    /\ s.found[i].because = n \/ \E j \in 1..i - 1 : s.found[j].node = s.found[i].because
\* What waits in the queue was seen or is where the search began; what does not wait has
\* had its dependents seen.
Waiting(n, s) ==
  /\ ToSet(s.queue) \subseteq {n} \cup s.seen
  /\ \A x \in {n} \cup s.seen : x \in ToSet(s.queue) \/ DependentsOf(x) \subseteq s.seen
\* The states of the search for what a change of n makes stale.
Searching(n) ==
  {s \in SearchState : FoundOnce(s) /\ Reasoned(n, s) /\ Waiting(n, s) /\ s.seen \subseteq StaleNodes(n)}

StaleStart(n) == [queue |-> <<n>>, seen |-> {}, found |-> <<>>]
StaleTurn(s) == IF s.queue = <<>> THEN s ELSE Visit(s)

LEMMA SearchBegins ==
  ASSUME NEW n \in Known
  PROVE  StaleStart(n) \in Searching(n)
<1> DEFINE s == StaleStart(n)
<1>1. n \in Node  BY DEF Known
<1>2. s.queue = <<n>> /\ s.seen = {} /\ s.found = <<>>  BY DEF StaleStart
<1>3. <<n>> \in Seq(Node) /\ <<>> \in Seq(Invalidation)  BY <1>1
<1>4. s \in SearchState  BY <1>3 DEF StaleStart, SearchState
<1>5. ToSet(<<n>>) = {n} /\ DOMAIN <<>> = {}
  <2>1. DOMAIN <<n>> = {1} /\ <<n>>[1] = n  OBVIOUS
  <2> QED  BY <2>1 DEF ToSet
<1> HIDE DEF s
<1>6. FoundOnce(s) /\ Reasoned(n, s)  BY <1>2, <1>5 DEF FoundOnce, Reasoned
<1>7. Waiting(n, s)  BY <1>2, <1>5 DEF Waiting
<1>8. s.seen \subseteq StaleNodes(n)  BY <1>2
<1>9. s \in Searching(n)  BY <1>4, <1>6, <1>7, <1>8 DEF Searching
<1> QED  BY <1>9 DEF s

\* A node of the queue is where the search began or stale, and so are its dependents.
LEMMA DependentsStale ==
  ASSUME StateTypeOK, NEW n \in Known, NEW c \in {n} \cup StaleNodes(n)
  PROVE  DependentsOf(c) \subseteq StaleNodes(n)
<1>1. ASSUME NEW y \in DependentsOf(c), c = n PROVE y \in StaleNodes(n)
  <2>1. y \in Node  BY DEF StateTypeOK, DependentsOf, Dependency
  <2>2. y \in Reachable(y)  BY <2>1 DEF Reachable
  <2> QED  BY <1>1, <2>2 DEF StaleNodes
<1>2. ASSUME NEW y \in DependentsOf(c), c \in StaleNodes(n) PROVE y \in StaleNodes(n)
  <2>1. PICK d \in DependentsOf(n) : c \in Reachable(d)  BY <1>2 DEF StaleNodes
  <2>2. y \in Reachable(d)  BY <2>1, ReachableGoesOn
  <2> QED  BY <2>1, <2>2 DEF StaleNodes
<1> QED  BY <1>1, <1>2

\* A turn of the loop keeps all this, and takes one more from the queue than it adds.
LEMMA VisitSearches ==
  ASSUME StateTypeOK, IsFiniteSet(Known), NodeAssumption, NEW n \in Known,
         NEW s \in Searching(n), s.queue # <<>>
  PROVE  /\ Visit(s) \in Searching(n)
         /\ Len(Visit(s).queue) - Len(Visit(s).found) = Len(s.queue) - Len(s.found) - 1
<1> DEFINE c == Head(s.queue)
           T == NewTo(DependentsOf(c), s.seen)
           new == InOrder(T)
           added == [i \in DOMAIN new |-> [node |-> new[i], because |-> c]]
           t == Visit(s)
           m == Len(new)
           l == Len(s.found)
<1>1. /\ s \in SearchState /\ FoundOnce(s) /\ Reasoned(n, s) /\ Waiting(n, s)
      /\ s.seen \subseteq StaleNodes(n)
  BY DEF Searching
<1>2. s.queue \in Seq(Node) /\ s.seen \in SUBSET Known /\ s.found \in Seq(Invalidation)
  BY <1>1 DEF SearchState
<1>3. /\ c \in Node /\ Tail(s.queue) \in Seq(Node) /\ Len(Tail(s.queue)) = Len(s.queue) - 1
      /\ ToSet(s.queue) = {c} \cup ToSet(Tail(s.queue))
  BY <1>2, QueueParts
<1>4. T = DependentsOf(c) \ s.seen /\ T \subseteq Known /\ IsFiniteSet(T)
  <2>1. T = DependentsOf(c) \ s.seen  BY DEF NewTo
  <2> QED  BY <2>1, DependentsKnown, FS_Subset
<1>5. Known \subseteq Node /\ Node \subseteq Nat  BY NodeAssumption DEF Known
<1>6. Lists(new, T)
  <2> HIDE DEF T
  <2>1. T \in SUBSET Nat  BY <1>4, <1>5
  <2> QED  BY <1>4, <2>1, OrderedLists
<1>7. /\ t.queue = Tail(s.queue) \o new /\ t.seen = s.seen \cup ToSet(new)
      /\ t.found = s.found \o added
      /\ t = [queue |-> t.queue, seen |-> t.seen, found |-> t.found]
  BY DEF Visit
<1> HIDE DEF t
<1>8. /\ new \in Seq(Node) /\ DOMAIN new = 1..m /\ m \in Nat /\ ToSet(new) = T
      /\ \A i \in 1..m : new[i] \in T
      /\ \A i, j \in 1..m : new[i] = new[j] => i = j
  <2> HIDE DEF T, new
  <2>1. new \in Seq(T) /\ ToSet(new) = T  BY <1>6 DEF Lists
  <2>2. T \subseteq Node  BY <1>4, <1>5
  <2>3. new \in Seq(Node)  BY <2>1, <2>2, SeqMonotonic
  <2>4. DOMAIN new = 1..m /\ m \in Nat /\ \A i \in 1..m : new[i] \in T
    BY <2>1, LenProperties, ElementOfSeq
  <2> QED  BY <1>6, <2>1, <2>3, <2>4 DEF Lists
<1>9. \A x \in T : \E i \in 1..m : new[i] = x
  <2> HIDE DEF T, new
  <2> QED  BY <1>8 DEF ToSet
<1> HIDE DEF new
<1>10. /\ added \in Seq(Invalidation) /\ Len(added) = m /\ DOMAIN added = 1..m
       /\ \A i \in 1..m : added[i].node = new[i] /\ added[i].because = c
  <2>1. \A i \in 1..m : new[i] \in Node  BY <1>8, ElementOfSeq
  <2>2. added = [i \in 1..m |-> [node |-> new[i], because |-> c]]  BY <1>8
  <2>3. \A i \in 1..m : [node |-> new[i], because |-> c] \in Invalidation
    BY <1>3, <2>1 DEF Invalidation
  <2> HIDE DEF c, m
  <2>4. added \in [1..m -> Invalidation]  BY <2>2, <2>3
  <2>5. added \in Seq(Invalidation)  BY <1>8, <2>4
  <2>6. Len(added) = m  BY <1>8, <2>2
  <2> QED  BY <2>2, <2>5, <2>6
<1> HIDE DEF added
<1>11. /\ t.found \in Seq(Invalidation) /\ Len(t.found) = l + m /\ l \in Nat
       /\ DOMAIN s.found = 1..l /\ DOMAIN t.found = 1..l + m
       /\ \A i \in 1..l + m : t.found[i] = IF i <= l THEN s.found[i] ELSE added[i - l]
  <2> DEFINE f == s.found
  <2> HIDE DEF c, m, f, T, Invalidation
  <2>1. f \in Seq(Invalidation) /\ added \in Seq(Invalidation)  BY <1>2, <1>10 DEF f
  <2>2. Len(f) \in Nat /\ DOMAIN f = 1..Len(f)  BY <2>1, LenProperties
  <2>3. /\ f \o added \in Seq(Invalidation) /\ Len(f \o added) = Len(f) + Len(added)
        /\ \A i \in 1..Len(f) + Len(added) :
             (f \o added)[i] = IF i <= Len(f) THEN f[i] ELSE added[i - Len(f)]
    BY <2>1, ConcatProperties
  <2>4. DOMAIN (f \o added) = 1..Len(f) + Len(added)  BY <2>3, LenProperties
  <2> QED  BY <1>7, <1>10, <2>2, <2>3, <2>4 DEF f
<1>12. \A i \in 1..l : i \in 1..l + m /\ t.found[i] = s.found[i]  BY <1>8, <1>11
<1>13. \A i \in 1..m : /\ l + i \in 1..l + m
                       /\ t.found[l + i].node = new[i] /\ t.found[l + i].because = c
  <2>1. ASSUME NEW i \in 1..m PROVE l + i \in 1..l + m /\ t.found[l + i] = added[i]
    <3>1. l + i \in 1..l + m /\ ~(l + i <= l) /\ (l + i) - l = i  BY <1>8, <1>11
    <3> QED  BY <1>11, <3>1
  <2> QED  BY <2>1, <1>10
<1>14. \A i \in 1..l + m : i \in 1..l \/ \E k \in 1..m : i = l + k
  <2>1. ASSUME NEW i \in 1..l + m, i \notin 1..l PROVE \E k \in 1..m : i = l + k
    <3>1. i - l \in 1..m /\ i = l + (i - l)  BY <1>8, <1>11, <2>1
    <3> QED  BY <3>1
  <2> QED  BY <2>1
<1> HIDE DEF l, m
<1>15. /\ t.queue \in Seq(Node) /\ Len(t.queue) = (Len(s.queue) - 1) + m
       /\ ToSet(t.queue) = ToSet(Tail(s.queue)) \cup T
  <2> DEFINE q == Tail(s.queue)
  <2> HIDE DEF q, c, T
  <2>1. q \in Seq(Node) /\ new \in Seq(Node) /\ Len(new) = m  BY <1>3, <1>8 DEF m, q
  <2>2. q \o new \in Seq(Node) /\ Len(q \o new) = Len(q) + Len(new)  BY <2>1, ConcatProperties
  <2>3. ToSet(q \o new) = ToSet(q) \cup ToSet(new)  BY <2>1, ToSetOfConcat
  <2> QED  BY <1>3, <1>7, <1>8, <2>1, <2>2, <2>3 DEF q
<1>16. t.seen = s.seen \cup T /\ t.seen = s.seen \cup DependentsOf(c)  BY <1>4, <1>7, <1>8
<1>17. t \in SearchState
  <2>1. t.seen \in SUBSET Known  BY <1>2, <1>4, <1>16
  <2> QED  BY <1>7, <1>11, <1>15, <2>1 DEF SearchState
<1>18. FoundOnce(t)
  <2>1. ASSUME NEW i \in 1..l + m PROVE t.found[i].node \in t.seen
    <3>1. CASE i \in 1..l
      <4>1. s.found[i].node \in s.seen  BY <1>1, <1>11, <3>1 DEF FoundOnce
      <4> QED  BY <1>12, <1>16, <3>1, <4>1
    <3>2. CASE \E k \in 1..m : i = l + k  BY <1>8, <1>13, <1>16, <3>2
    <3> QED  BY <1>14, <3>1, <3>2
  <2>2. ASSUME NEW x \in t.seen PROVE \E i \in 1..l + m : t.found[i].node = x
    <3>1. CASE x \in s.seen
      <4>1. PICK i \in 1..l : s.found[i].node = x  BY <1>1, <1>11, <3>1 DEF FoundOnce
      <4> QED  BY <1>12, <4>1
    <3>2. CASE x \in T
      <4>1. PICK i \in 1..m : new[i] = x  BY <1>9, <3>2
      <4> QED  BY <1>13, <4>1
    <3> QED  BY <1>16, <3>1, <3>2
  <2>3. ASSUME NEW i \in 1..l + m, NEW j \in 1..l + m, t.found[i].node = t.found[j].node
        PROVE  i = j
    <3>1. \A k \in 1..l : t.found[k].node \in s.seen
      BY <1>1, <1>11, <1>12 DEF FoundOnce
    <3>2. \A k \in 1..m : t.found[l + k].node \notin s.seen  BY <1>4, <1>8, <1>13
    <3>3. CASE i \in 1..l /\ j \in 1..l
      BY <1>1, <1>11, <1>12, <2>3, <3>3 DEF FoundOnce
    <3>4. CASE i \notin 1..l /\ j \notin 1..l
      <4>1. PICK k \in 1..m : i = l + k  BY <1>14, <3>4
      <4>2. PICK h \in 1..m : j = l + h  BY <1>14, <3>4
      <4>3. new[k] = new[h]  BY <1>13, <2>3, <4>1, <4>2
      <4>4. k = h  BY <1>8, <4>3
      <4> QED  BY <4>1, <4>2, <4>4
    <3> QED  BY <1>14, <2>3, <3>1, <3>2, <3>3, <3>4
  <2> QED  BY <1>11, <2>1, <2>2, <2>3 DEF FoundOnce
<1>19. Reasoned(n, t)
  <2>1. ASSUME NEW i \in 1..l
        PROVE  /\ t.found[i].node \in DependentsOf(t.found[i].because)
               /\ t.found[i].because = n
                    \/ \E j \in 1..i - 1 : t.found[j].node = t.found[i].because
    <3>1. /\ s.found[i].node \in DependentsOf(s.found[i].because)
          /\ s.found[i].because = n
               \/ \E j \in 1..i - 1 : s.found[j].node = s.found[i].because
      BY <1>1, <1>11 DEF Reasoned
    <3>2. \A j \in 1..i - 1 : j \in 1..l  BY <1>11
    <3> QED  BY <1>12, <3>1, <3>2
  <2>2. ASSUME NEW k \in 1..m
        PROVE  /\ t.found[l + k].node \in DependentsOf(t.found[l + k].because)
               /\ t.found[l + k].because = n
                    \/ \E j \in 1..(l + k) - 1 : t.found[j].node = t.found[l + k].because
    <3>1. new[k] \in DependentsOf(c)  BY <1>4, <1>8
    <3>2. CASE c = n  BY <1>13, <3>1, <3>2
    <3>3. CASE c # n
      <4>1. c \in s.seen  BY <1>1, <1>3, <3>3 DEF Waiting
      <4>2. PICK j \in 1..l : s.found[j].node = c  BY <1>1, <1>11, <4>1 DEF FoundOnce
      <4>3. j \in 1..(l + k) - 1  BY <1>8, <1>11
      <4> QED  BY <1>12, <1>13, <3>1, <4>2, <4>3
    <3> QED  BY <3>2, <3>3
  <2>3. ASSUME NEW i \in 1..l + m
        PROVE  /\ t.found[i].node \in DependentsOf(t.found[i].because)
               /\ t.found[i].because = n
                    \/ \E j \in 1..i - 1 : t.found[j].node = t.found[i].because
    <3>1. CASE i \in 1..l  BY <2>1, <3>1
    <3>2. CASE \E k \in 1..m : i = l + k  BY <2>2, <3>2
    <3> QED  BY <1>14, <3>1, <3>2
  <2> QED  BY <1>11, <2>3 DEF Reasoned
<1>20. Waiting(n, t)
  <2>1. ToSet(t.queue) \subseteq {n} \cup t.seen
    <3>1. ToSet(Tail(s.queue)) \subseteq {n} \cup s.seen  BY <1>1, <1>3 DEF Waiting
    <3> QED  BY <1>15, <1>16, <3>1
  <2>2. ASSUME NEW x \in {n} \cup t.seen
        PROVE  x \in ToSet(t.queue) \/ DependentsOf(x) \subseteq t.seen
    <3>1. CASE x = c  BY <1>16, <3>1
    <3>2. CASE x \in T  BY <1>15, <3>2
    <3>3. CASE x # c /\ x \in {n} \cup s.seen
      <4>1. x \in ToSet(s.queue) \/ DependentsOf(x) \subseteq s.seen
        BY <1>1, <3>3 DEF Waiting
      <4> QED  BY <1>3, <1>15, <1>16, <3>3, <4>1
    <3> QED  BY <1>16, <3>1, <3>2, <3>3
  <2> QED  BY <2>1, <2>2 DEF Waiting
<1>21. t.seen \subseteq StaleNodes(n)
  <2>1. c \in {n} \cup s.seen  BY <1>1, <1>3 DEF Waiting
  <2>2. c \in {n} \cup StaleNodes(n)  BY <1>1, <2>1
  <2> HIDE DEF c
  <2>3. DependentsOf(c) \subseteq StaleNodes(n)  BY <2>2, DependentsStale
  <2> QED  BY <1>1, <1>16, <2>3
<1>22. t \in Searching(n)  BY <1>17, <1>18, <1>19, <1>20, <1>21 DEF Searching
<1>23. Len(t.queue) - Len(t.found) = Len(s.queue) - Len(s.found) - 1
  <2>1. Len(s.queue) \in Nat  BY <1>2, LenProperties
  <2> QED  BY <1>8, <1>11, <1>15, <2>1 DEF l
<1> QED  BY <1>22, <1>23 DEF t

\* The search is a run of these turns.
LEMMA StaleSearchRuns ==
  ASSUME StateTypeOK, IsFiniteSet(Known), NodeAssumption, NEW n \in Known
  PROVE  /\ StaleSearch(n) \in [Nat -> Searching(n)]
         /\ StaleSearch(n)[0] = StaleStart(n)
         /\ \A k \in Nat : StaleSearch(n)[k + 1] = StaleTurn(StaleSearch(n)[k])
<1> DEFINE S == Searching(n)
           step == [s \in S |-> StaleTurn(s)]
           Turns(h) == h = [k \in Nat |->
                              IF k = 0 THEN [queue |-> <<n>>, seen |-> {}, found |-> <<>>]
                              ELSE IF h[k - 1].queue = <<>> THEN h[k - 1] ELSE Visit(h[k - 1])]
<1>1. StaleSearch(n) = CHOOSE h : Turns(h)  BY DEF StaleSearch
<1>2. StaleStart(n) \in S  BY SearchBegins
<1>3. \A s \in S : StaleTurn(s) \in S  BY VisitSearches DEF StaleTurn
<1>4. step \in [S -> S]
  <2> HIDE DEF S
  <2> QED  BY <1>3
<1> HIDE DEF S, step, Turns
<1>5. PICK g \in [Nat -> S] : g[0] = StaleStart(n) /\ \A k \in Nat : g[k + 1] = step[g[k]]
  <2> DEFINE a == StaleStart(n)
  <2>1. a \in S  BY <1>2
  <2> HIDE DEF a
  <2>2. \E g : GoesOn(S, a, step, g)  BY <1>4, <2>1, RecursionExists
  <2> QED  BY <2>2 DEF a, GoesOn
<1>6. \A k \in Nat : g[k + 1] = StaleTurn(g[k])  BY <1>5 DEF step
<1>7. Turns(g)
  <2> DEFINE f == [k \in Nat |-> IF k = 0 THEN StaleStart(n) ELSE StaleTurn(g[k - 1])]
  <2>1. ASSUME NEW k \in Nat PROVE g[k] = f[k]
    <3>1. CASE k = 0  BY <1>5, <3>1
    <3>2. CASE k # 0
      <4>1. k - 1 \in Nat /\ (k - 1) + 1 = k  BY <3>2
      <4> QED  BY <1>6, <3>2, <4>1
    <3> QED  BY <3>1, <3>2
  <2>2. g = f
    <3> HIDE DEF f
    <3>1. f = [k \in Nat |-> f[k]]  BY DEF f
    <3>2. g = [k \in Nat |-> g[k]]  BY <1>5
    <3> QED  BY <2>1, <3>1, <3>2
  <2>3. f = [k \in Nat |-> IF k = 0 THEN [queue |-> <<n>>, seen |-> {}, found |-> <<>>]
                           ELSE IF g[k - 1].queue = <<>> THEN g[k - 1] ELSE Visit(g[k - 1])]
    BY DEF StaleStart, StaleTurn
  <2> HIDE DEF f
  <2> QED  BY <2>2, <2>3 DEF Turns
<1>8. Turns(StaleSearch(n))  BY <1>1, <1>7
<1> DEFINE h == StaleSearch(n)
<1>9. h = [k \in Nat |-> IF k = 0 THEN StaleStart(n) ELSE StaleTurn(h[k - 1])]
  BY <1>8 DEF StaleStart, StaleTurn, Turns
<1> HIDE DEF h
<1>10. h[0] = StaleStart(n)  BY <1>9
<1>11. ASSUME NEW k \in Nat PROVE h[k + 1] = StaleTurn(h[k])
  <2>1. k + 1 \in Nat /\ k + 1 # 0 /\ (k + 1) - 1 = k  OBVIOUS
  <2> QED  BY <1>9, <2>1
<1>12. \A k \in Nat : h[k] \in S
  <2> DEFINE P == {k \in Nat : h[k] \in S}
  <2>1. 0 \in P  BY <1>2, <1>10
  <2>2. \A k \in Nat : k \in P => k + 1 \in P  BY <1>3, <1>11
  <2> HIDE DEF P
  <2>3. Nat \subseteq P  BY <2>1, <2>2, Induction
  <2> QED  BY <2>3 DEF P
<1>13. h \in [Nat -> S]  BY <1>9, <1>12
<1> QED  BY <1>10, <1>11, <1>13 DEF h, S

\* It has found no more than is known.
LEMMA FoundAreKnown ==
  ASSUME IsFiniteSet(Known), NEW n \in Known, NEW s \in Searching(n)
  PROVE  Len(s.found) \in Nat /\ Len(s.queue) \in Nat /\ Len(s.found) <= Cardinality(Known)
<1> DEFINE l == Len(s.found)
           f == [i \in 1..l |-> s.found[i].node]
<1>1. s \in SearchState /\ FoundOnce(s)  BY DEF Searching
<1>2. s.queue \in Seq(Node) /\ s.found \in Seq(Invalidation) /\ s.seen \subseteq Known
  BY <1>1 DEF SearchState
<1>3. l \in Nat /\ DOMAIN s.found = 1..l /\ Len(s.queue) \in Nat  BY <1>2, LenProperties
<1> HIDE DEF l
<1>4. f \in Injection(1..l, Known)
  BY <1>1, <1>2, <1>3 DEF FoundOnce, Injection, IsInjective
<1>5. Cardinality(1..l) <= Cardinality(Known)
  <2> HIDE DEF f
  <2> QED  BY <1>4, FS_Injection
<1>6. Cardinality(1..l) = l
  <2>1. 1 \in Int /\ l \in Int  BY <1>3
  <2>2. Cardinality(1..l) = IF 1 > l THEN 0 ELSE l - 1 + 1  BY <2>1, FS_Interval
  <2> QED  BY <1>3, <2>1, <2>2
<1> QED  BY <1>3, <1>5, <1>6 DEF l

\* The search ends and has then returned what is stale.
LEMMA StaleSearchIsExact ==
  ASSUME StateTypeOK, IsFiniteSet(Known), NodeAssumption, NEW n \in Known
  PROVE  StaleSearchExact(n)
<1> DEFINE h == StaleSearch(n)
           K == Cardinality(Known)
           P == {k \in Nat : h[k].queue = <<>> \/ Len(h[k].queue) - Len(h[k].found) = 1 - k}
<1>1. /\ h[0] = StaleStart(n) /\ \A k \in Nat : h[k] \in Searching(n)
      /\ \A k \in Nat : h[k + 1] = StaleTurn(h[k])
  BY StaleSearchRuns
<1>2. K \in Nat  BY FS_CardinalityType
<1> HIDE DEF h, K
<1>3. 0 \in P
  <2>1. h[0].queue = <<n>> /\ h[0].found = <<>>  BY <1>1 DEF StaleStart
  <2>2. Len(<<n>>) = 1 /\ Len(<<>>) = 0  OBVIOUS
  <2> QED  BY <2>1, <2>2
<1>4. ASSUME NEW k \in Nat, k \in P PROVE k + 1 \in P
  <2> DEFINE s == h[k]
  <2>1. s \in Searching(n) /\ h[k + 1] = StaleTurn(s)  BY <1>1
  <2>2. CASE s.queue = <<>>  BY <2>1, <2>2 DEF StaleTurn
  <2>3. CASE s.queue # <<>>
    <3>1. h[k + 1] = Visit(s)  BY <2>1, <2>3 DEF StaleTurn
    <3>2. Len(s.queue) - Len(s.found) = 1 - k  BY <1>4, <2>3
    <3> HIDE DEF s
    <3>3. Len(Visit(s).queue) - Len(Visit(s).found) = Len(s.queue) - Len(s.found) - 1
      BY <2>1, <2>3, VisitSearches
    <3>4. (1 - k) - 1 = 1 - (k + 1) /\ k + 1 \in Nat  OBVIOUS
    <3>5. Len(h[k + 1].queue) - Len(h[k + 1].found) = 1 - (k + 1)  BY <3>1, <3>2, <3>3, <3>4
    <3> QED  BY <3>4, <3>5
  <2> QED  BY <2>2, <2>3
<1>5. K + 1 \in P
  <2> HIDE DEF P
  <2>1. Nat \subseteq P  BY <1>3, <1>4, Induction
  <2> QED  BY <1>2, <2>1
<1> DEFINE s == h[K + 1]
<1>6. s \in Searching(n)  BY <1>1, <1>2
<1>7. Len(s.found) \in Nat /\ Len(s.queue) \in Nat /\ Len(s.found) <= K
  <2> HIDE DEF s
  <2> QED  BY <1>6, FoundAreKnown DEF K
<1>8. s \in SearchState /\ FoundOnce(s) /\ Reasoned(n, s) /\ Waiting(n, s)
      /\ s.seen \subseteq StaleNodes(n)
  BY <1>6 DEF Searching
<1>9. s.queue = <<>>
  <2>1. SUFFICES ASSUME Len(s.queue) - Len(s.found) = 1 - (K + 1) PROVE s.queue = <<>>
    BY <1>5
  <2> DEFINE lq == Len(s.queue)
             lf == Len(s.found)
  <2>2. lq = 0
    <3>1. lq - lf = 1 - (K + 1) /\ lq \in Nat /\ lf \in Nat /\ lf <= K  BY <1>7, <2>1
    <3> HIDE DEF lq, lf
    <3> QED  BY <1>2, <3>1
  <2>3. s.queue \in Seq(Node)  BY <1>8 DEF SearchState
  <2> HIDE DEF s
  <2> QED  BY <2>2, <2>3, EmptySeq
<1> HIDE DEF s
<1>10. StaleNodes(n) \subseteq s.seen
  <2>1. DOMAIN s.queue = {} /\ ToSet(s.queue) = {}  BY <1>9 DEF ToSet
  <2>2. \A x \in {n} \cup s.seen : DependentsOf(x) \subseteq s.seen  BY <1>8, <2>1 DEF Waiting
  <2>3. s.seen \in SUBSET Node  BY <1>8 DEF SearchState, Known
  <2>4. ASSUME NEW d \in DependentsOf(n) PROVE Reachable(d) \subseteq s.seen
    BY <2>2, <2>3, ReachableWithin
  <2> QED  BY <2>4 DEF StaleNodes
<1>11. {s.found[i].node : i \in DOMAIN s.found} = s.seen  BY <1>8 DEF FoundOnce
<1>12. s = StaleSearch(n)[Cardinality(Known) + 1]  BY DEF s, h, K
<1> QED  BY <1>8, <1>9, <1>10, <1>11, <1>12 DEF StaleSearchExact, FoundOnce, Reasoned

-----------------------------------------------------------------------------
(* _would_cycle                                                            *)

WalkState == [stack : Seq(Node), visited : SUBSET Node, cycle : BOOLEAN]
\* What was visited or waits on the stack is reachable from d, a node that was visited has
\* its dependents among them, and none of those visited is u.
Walked(u, d, s) ==
  /\ ToSet(s.stack) \subseteq Reachable(d) /\ s.visited \subseteq Reachable(d)
  /\ d \in s.visited \cup ToSet(s.stack)
  /\ \A x \in s.visited : DependentsOf(x) \subseteq s.visited \cup ToSet(s.stack)
  /\ u \notin s.visited
  /\ s.cycle => u \in Reachable(d)
Walking(u, d) == {s \in WalkState : Walked(u, d, s)}

WalkStart(d) == [stack |-> <<d>>, visited |-> {}, cycle |-> FALSE]
WalkDone(s) == s.cycle \/ s.stack = <<>>
WalkTurn(u, s) == IF WalkDone(s) THEN s ELSE Explore(u, s)

\* The links that start at a node of V.
Out(V) == {l \in Links : l[1] \in V}

LEMMA LinksFinite ==
  ASSUME StateTypeOK, IsFiniteSet(Known)
  PROVE  IsFiniteSet(Links)
<1>1. Links \subseteq Known \X Known  BY DEF Links, StateTypeOK
<1>2. IsFiniteSet(Known \X Known)  BY FS_Product
<1> QED  BY <1>1, <1>2, FS_Subset

\* Two sets that share nothing have together as many members as both.
LEMMA DisjointSizes ==
  ASSUME NEW A, NEW B, IsFiniteSet(A), IsFiniteSet(B), A \cap B = {}
  PROVE  Cardinality(A \cup B) = Cardinality(A) + Cardinality(B)
<1>1. Cardinality(A) \in Nat /\ Cardinality(B) \in Nat  BY FS_CardinalityType
<1>2. Cardinality(A \cup B) = Cardinality(A) + Cardinality(B) - Cardinality(A \cap B)
  BY FS_Union
<1>3. Cardinality(A \cap B) = 0  BY FS_EmptySet
<1> QED  BY <1>1, <1>2, <1>3

\* One more node has as many links as dependents.
LEMMA OutGrows ==
  ASSUME StateTypeOK, IsFiniteSet(Known), NEW V, NEW c, c \notin V
  PROVE  /\ Cardinality(Out(V)) \in Nat
         /\ Cardinality(DependentsOf(c)) \in Nat
         /\ Cardinality(Out(V \cup {c})) = Cardinality(Out(V)) + Cardinality(DependentsOf(c))
<1> DEFINE D == DependentsOf(c)
           f == [y \in D |-> <<c, y>>]
<1>1. IsFiniteSet(Links)  BY LinksFinite
<1>2. IsFiniteSet(D)  BY DependentsKnown
<1>3. IsFiniteSet(Out(V)) /\ IsFiniteSet(Out({c}))
  <2>1. Out(V) \subseteq Links /\ Out({c}) \subseteq Links  BY DEF Out
  <2> QED  BY <1>1, <2>1, FS_Subset
<1>4. \A l \in Out({c}) : \E y \in D : l = <<c, y>>
  <2>1. ASSUME NEW l \in Out({c}) PROVE \E y \in D : l = <<c, y>>
    <3>1. PICK e \in dependencies : l = <<e.upstream, e.downstream>>  BY DEF Out, Links
    <3>2. e.upstream = c  BY <3>1 DEF Out
    <3>3. e.downstream \in D  BY <3>2 DEF DependentsOf
    <3> QED  BY <3>1, <3>2, <3>3
  <2> QED  BY <2>1
<1>5. \A y \in D : <<c, y>> \in Out({c})
  <2>1. ASSUME NEW y \in D PROVE <<c, y>> \in Out({c})
    <3>1. PICK e \in dependencies : e.upstream = c /\ e.downstream = y  BY DEF DependentsOf
    <3>2. <<c, y>> \in Links  BY <3>1 DEF Links
    <3> QED  BY <3>2 DEF Out
  <2> QED  BY <2>1
<1> HIDE DEF D
<1>6. f \in Bijection(D, Out({c}))
  <2>1. f \in [D -> Out({c})]  BY <1>5
  <2>2. f \in Injection(D, Out({c}))  BY <2>1 DEF Injection, IsInjective
  <2>3. f \in Surjection(D, Out({c}))  BY <2>1, <1>4 DEF Surjection
  <2> QED  BY <2>2, <2>3 DEF Bijection
<1>7. Cardinality(Out({c})) = Cardinality(D)
  <2>1. ExistsBijection(D, Out({c}))  BY <1>6 DEF ExistsBijection
  <2> QED  BY <1>2, <2>1, FS_Bijection
<1>8. Out(V \cup {c}) = Out(V) \cup Out({c})  BY DEF Out
<1>9. Out(V) \cap Out({c}) = {}  BY DEF Out
<1>10. Cardinality(Out(V) \cup Out({c})) = Cardinality(Out(V)) + Cardinality(Out({c}))
  <2> DEFINE A == Out(V)
             B == Out({c})
  <2>1. IsFiniteSet(A) /\ IsFiniteSet(B) /\ A \cap B = {}  BY <1>3, <1>9
  <2> HIDE DEF A, B
  <2>2. Cardinality(A \cup B) = Cardinality(A) + Cardinality(B)  BY <2>1, DisjointSizes
  <2> QED  BY <2>2 DEF A, B
<1>11. Cardinality(Out(V)) \in Nat /\ Cardinality(D) \in Nat  BY <1>2, <1>3, FS_CardinalityType
<1>12. Cardinality(Out(V \cup {c})) = Cardinality(Out(V)) + Cardinality(D)
  <2> DEFINE W == Out(V \cup {c})
             U == Out(V) \cup Out({c})
  <2>1. W = U  BY <1>8
  <2>2. Cardinality(U) = Cardinality(Out(V)) + Cardinality(D)  BY <1>7, <1>10
  <2> HIDE DEF W, U
  <2>3. Cardinality(W) = Cardinality(Out(V)) + Cardinality(D)  BY <2>1, <2>2
  <2> QED  BY <2>3 DEF W
<1> QED  BY <1>11, <1>12 DEF D

LEMMA WalkBegins ==
  ASSUME NEW u, NEW d \in Known
  PROVE  WalkStart(d) \in Walking(u, d)
<1> DEFINE s == WalkStart(d)
<1>1. d \in Node  BY DEF Known
<1>2. s.stack = <<d>> /\ s.visited = {} /\ s.cycle = FALSE  BY DEF WalkStart
<1>3. s \in WalkState  BY <1>1 DEF WalkStart, WalkState
<1>4. ToSet(<<d>>) = {d}
  <2>1. DOMAIN <<d>> = {1} /\ <<d>>[1] = d  OBVIOUS
  <2> QED  BY <2>1 DEF ToSet
<1>5. d \in Reachable(d)  BY <1>1 DEF Reachable
<1> HIDE DEF s
<1>6. Walked(u, d, s)  BY <1>2, <1>4, <1>5 DEF Walked
<1>7. s \in Walking(u, d)  BY <1>3, <1>6 DEF Walking
<1> QED  BY <1>7 DEF s

\* A turn keeps all this, and finds the cycle or brings the stack one nearer to its end.
LEMMA ExploreWalks ==
  ASSUME StateTypeOK, IsFiniteSet(Known), NodeAssumption, NEW u, NEW d \in Known,
         NEW s \in Walking(u, d), ~WalkDone(s)
  PROVE  /\ Explore(u, s) \in Walking(u, d)
         /\ \/ Explore(u, s).cycle
            \/ Len(Explore(u, s).stack) - Cardinality(Out(Explore(u, s).visited)) =
                 Len(s.stack) - Cardinality(Out(s.visited)) - 1
<1> DEFINE c == Last(s.stack)
           rest == Front(s.stack)
           D == DependentsOf(c)
           more == SetToSeq(D)
           t == Explore(u, s)
<1>1. s \in WalkState /\ Walked(u, d, s)  BY DEF Walking
<1>2. /\ s.stack \in Seq(Node) /\ s.visited \in SUBSET Node /\ s.cycle = FALSE /\ s.stack # <<>>
      /\ s = [stack |-> s.stack, visited |-> s.visited, cycle |-> FALSE]
  BY <1>1 DEF WalkState, WalkDone
<1>3. /\ c \in Node /\ rest \in Seq(Node) /\ Len(rest) = Len(s.stack) - 1
      /\ ToSet(s.stack) = {c} \cup ToSet(rest)
  BY <1>2, StackParts
<1>4. Len(s.stack) \in Nat /\ Len(rest) \in Nat  BY <1>2, <1>3, LenProperties
<1>5. c \in Reachable(d)  BY <1>1, <1>3 DEF Walked
<1>6. D \subseteq Known /\ IsFiniteSet(D)  BY DependentsKnown
<1>7. D \subseteq Reachable(d)
  <2> HIDE DEF c
  <2> QED  BY <1>5, ReachableGoesOn
<1>8. more \in Seq(Node) /\ Len(more) = Cardinality(D) /\ ToSet(more) = D
  <2>1. Known \subseteq Node /\ Node \subseteq Nat  BY NodeAssumption DEF Known
  <2> HIDE DEF D
  <2>2. D \in SUBSET Nat /\ D \subseteq Node  BY <1>6, <2>1
  <2>3. Lists(more, D)  BY <1>6, <2>2, OrderedLists
  <2>4. more \in Seq(D)  BY <2>3 DEF Lists
  <2>5. more \in Seq(Node)
    <3> HIDE DEF more
    <3> QED  BY <2>2, <2>4, SeqMonotonic
  <2> QED  BY <2>3, <2>5 DEF Lists
<1>9. CASE c = u
  <2>1. t = [stack |-> s.stack, visited |-> s.visited, cycle |-> TRUE]
    BY <1>2, <1>9 DEF Explore
  <2>2. t.stack = s.stack /\ t.visited = s.visited /\ t.cycle = TRUE  BY <2>1
  <2>3. t \in WalkState  BY <1>2, <2>1 DEF WalkState
  <2>4. u \in Reachable(d)  BY <1>5, <1>9
  <2> HIDE DEF t
  <2>5. Walked(u, d, t)  BY <1>1, <2>2, <2>4 DEF Walked
  <2>6. t \in Walking(u, d)  BY <2>3, <2>5 DEF Walking
  <2> QED  BY <2>2, <2>6 DEF t
<1>10. CASE c # u /\ c \in s.visited
  <2>1. t = [stack |-> rest, visited |-> s.visited, cycle |-> FALSE]
    BY <1>2, <1>10 DEF Explore
  <2>2. t.stack = rest /\ t.visited = s.visited /\ t.cycle = FALSE  BY <2>1
  <2>3. t \in WalkState  BY <1>2, <1>3, <2>1 DEF WalkState
  <2> HIDE DEF t, c, rest
  <2>4. Walked(u, d, t)  BY <1>1, <1>3, <1>10, <2>2 DEF Walked
  <2>5. t \in Walking(u, d)  BY <2>3, <2>4 DEF Walking
  <2>6. Cardinality(Out(s.visited)) \in Nat
    <3>1. Out(s.visited) \subseteq Links  BY DEF Out
    <3> QED  BY <3>1, LinksFinite, FS_Subset, FS_CardinalityType
  <2>7. Len(t.stack) - Cardinality(Out(t.visited)) =
          Len(s.stack) - Cardinality(Out(s.visited)) - 1
    BY <1>3, <1>4, <2>2, <2>6
  <2> QED  BY <2>5, <2>7 DEF t
<1>11. CASE c # u /\ c \notin s.visited
  <2>1. t = [stack |-> rest \o more, visited |-> s.visited \cup {c}, cycle |-> FALSE]
    BY <1>2, <1>11 DEF Explore
  <2>2. t.stack = rest \o more /\ t.visited = s.visited \cup {c} /\ t.cycle = FALSE  BY <2>1
  <2> HIDE DEF t, c, rest, more
  <2>3. rest \o more \in Seq(Node) /\ Len(rest \o more) = Len(rest) + Len(more)
    <3> HIDE DEF D
    <3>1. rest \in Seq(Node) /\ more \in Seq(Node)  BY <1>3, <1>8
    <3> QED  BY <3>1, ConcatProperties
  <2>4. ToSet(rest \o more) = ToSet(rest) \cup ToSet(more)  BY <1>3, <1>8, ToSetOfConcat
  <2>5. t \in WalkState  BY <1>2, <1>3, <2>1, <2>3 DEF WalkState
  <2>6. ToSet(t.stack) = ToSet(rest) \cup D  BY <1>8, <2>2, <2>4
  <2>7. \A x \in t.visited : DependentsOf(x) \subseteq t.visited \cup ToSet(t.stack)
    <3>1. ASSUME NEW x \in s.visited
          PROVE  DependentsOf(x) \subseteq t.visited \cup ToSet(t.stack)
      <4>1. DependentsOf(x) \subseteq s.visited \cup ToSet(s.stack)  BY <1>1 DEF Walked
      <4> QED  BY <1>3, <2>2, <2>6, <4>1
    <3>2. DependentsOf(c) \subseteq t.visited \cup ToSet(t.stack)  BY <2>6
    <3> QED  BY <2>2, <3>1, <3>2
  <2> HIDE DEF D
  <2>8. Walked(u, d, t)
    <3>1. ToSet(t.stack) \subseteq Reachable(d) /\ t.visited \subseteq Reachable(d)
      BY <1>1, <1>3, <1>5, <1>7, <2>2, <2>6 DEF Walked
    <3>2. d \in t.visited \cup ToSet(t.stack)  BY <1>1, <1>3, <2>2, <2>6 DEF Walked
    <3>3. u \notin t.visited  BY <1>1, <1>11, <2>2 DEF Walked
    <3> QED  BY <2>2, <2>7, <3>1, <3>2, <3>3 DEF Walked
  <2>9. t \in Walking(u, d)  BY <2>5, <2>8 DEF Walking
  <2>10. /\ Cardinality(Out(s.visited)) \in Nat /\ Cardinality(D) \in Nat
         /\ Cardinality(Out(t.visited)) = Cardinality(Out(s.visited)) + Cardinality(D)
    BY <1>11, <2>2, OutGrows DEF D
  <2>11. Len(t.stack) - Cardinality(Out(t.visited)) =
           Len(s.stack) - Cardinality(Out(s.visited)) - 1
    BY <1>3, <1>4, <1>8, <2>2, <2>3, <2>10
  <2> QED  BY <2>9, <2>11 DEF t
<1> QED  BY <1>9, <1>10, <1>11

\* The search is a run of these turns.
LEMMA CycleSearchRuns ==
  ASSUME StateTypeOK, IsFiniteSet(Known), NodeAssumption, NEW u, NEW d \in Known
  PROVE  /\ \A k \in Nat : CycleSearch(u, d)[k] \in Walking(u, d)
         /\ CycleSearch(u, d)[0] = WalkStart(d)
         /\ \A k \in Nat : CycleSearch(u, d)[k + 1] = WalkTurn(u, CycleSearch(u, d)[k])
<1> DEFINE S == Walking(u, d)
           step == [s \in S |-> WalkTurn(u, s)]
           Turns(h) == h = [k \in Nat |->
                              IF k = 0 THEN [stack |-> <<d>>, visited |-> {}, cycle |-> FALSE]
                              ELSE IF h[k - 1].cycle \/ h[k - 1].stack = <<>> THEN h[k - 1]
                              ELSE Explore(u, h[k - 1])]
<1>1. CycleSearch(u, d) = CHOOSE h : Turns(h)  BY DEF CycleSearch
<1>2. WalkStart(d) \in S  BY WalkBegins
<1>3. \A s \in S : WalkTurn(u, s) \in S  BY ExploreWalks DEF WalkTurn
<1>4. step \in [S -> S]
  <2> HIDE DEF S
  <2> QED  BY <1>3
<1> HIDE DEF S, step, Turns
<1>5. PICK g \in [Nat -> S] : g[0] = WalkStart(d) /\ \A k \in Nat : g[k + 1] = step[g[k]]
  <2> DEFINE a == WalkStart(d)
  <2>1. a \in S  BY <1>2
  <2> HIDE DEF a
  <2>2. \E g : GoesOn(S, a, step, g)  BY <1>4, <2>1, RecursionExists
  <2> QED  BY <2>2 DEF a, GoesOn
<1>6. \A k \in Nat : g[k + 1] = WalkTurn(u, g[k])  BY <1>5 DEF step
<1>7. Turns(g)
  <2> DEFINE f == [k \in Nat |-> IF k = 0 THEN WalkStart(d) ELSE WalkTurn(u, g[k - 1])]
  <2>1. ASSUME NEW k \in Nat PROVE g[k] = f[k]
    <3>1. CASE k = 0  BY <1>5, <3>1
    <3>2. CASE k # 0
      <4>1. k - 1 \in Nat /\ (k - 1) + 1 = k  BY <3>2
      <4> QED  BY <1>6, <3>2, <4>1
    <3> QED  BY <3>1, <3>2
  <2>2. g = f
    <3> HIDE DEF f
    <3>1. f = [k \in Nat |-> f[k]]  BY DEF f
    <3>2. g = [k \in Nat |-> g[k]]  BY <1>5
    <3> QED  BY <2>1, <3>1, <3>2
  <2>3. f = [k \in Nat |-> IF k = 0 THEN [stack |-> <<d>>, visited |-> {}, cycle |-> FALSE]
                           ELSE IF g[k - 1].cycle \/ g[k - 1].stack = <<>> THEN g[k - 1]
                           ELSE Explore(u, g[k - 1])]
    BY DEF WalkStart, WalkTurn, WalkDone
  <2> HIDE DEF f
  <2> QED  BY <2>2, <2>3 DEF Turns
<1>8. Turns(CycleSearch(u, d))  BY <1>1, <1>7
<1> DEFINE h == CycleSearch(u, d)
<1>9. h = [k \in Nat |-> IF k = 0 THEN WalkStart(d) ELSE WalkTurn(u, h[k - 1])]
  BY <1>8 DEF WalkStart, WalkTurn, WalkDone, Turns
<1> HIDE DEF h
<1>10. h[0] = WalkStart(d)  BY <1>9
<1>11. ASSUME NEW k \in Nat PROVE h[k + 1] = WalkTurn(u, h[k])
  <2>1. k + 1 \in Nat /\ k + 1 # 0 /\ (k + 1) - 1 = k  OBVIOUS
  <2> QED  BY <1>9, <2>1
<1>12. \A k \in Nat : h[k] \in S
  <2> DEFINE P == {k \in Nat : h[k] \in S}
  <2>1. 0 \in P  BY <1>2, <1>10
  <2>2. \A k \in Nat : k \in P => k + 1 \in P  BY <1>3, <1>11
  <2> HIDE DEF P
  <2>3. Nat \subseteq P  BY <2>1, <2>2, Induction
  <2> QED  BY <2>3 DEF P
<1> QED  BY <1>10, <1>11, <1>12 DEF h, S

\* The search ends and has found the cycle if there would be one.
LEMMA CycleSearchIsExact ==
  ASSUME StateTypeOK, IsFiniteSet(Known), NodeAssumption, NEW u, NEW d \in Known
  PROVE  CycleSearchExact(u, d)
<1> DEFINE h == CycleSearch(u, d)
           L == Cardinality(Links)
           P == {k \in Nat : \/ WalkDone(h[k])
                             \/ Len(h[k].stack) - Cardinality(Out(h[k].visited)) = 1 - k}
<1>1. /\ h[0] = WalkStart(d) /\ \A k \in Nat : h[k] \in Walking(u, d)
      /\ \A k \in Nat : h[k + 1] = WalkTurn(u, h[k])
  BY CycleSearchRuns
<1>2. L \in Nat  BY LinksFinite, FS_CardinalityType
<1> HIDE DEF h, L
<1>3. 0 \in P
  <2>1. h[0].stack = <<d>> /\ h[0].visited = {}  BY <1>1 DEF WalkStart
  <2>2. Len(<<d>>) = 1  OBVIOUS
  <2>3. Cardinality(Out({})) = 0  BY FS_EmptySet DEF Out
  <2> QED  BY <2>1, <2>2, <2>3
<1>4. ASSUME NEW k \in Nat, k \in P PROVE k + 1 \in P
  <2> DEFINE s == h[k]
             t == h[k + 1]
  <2>1. s \in Walking(u, d) /\ t = WalkTurn(u, s)  BY <1>1
  <2>2. (1 - k) - 1 = 1 - (k + 1) /\ k + 1 \in Nat  OBVIOUS
  <2>3. CASE WalkDone(s)  BY <2>1, <2>2, <2>3 DEF WalkTurn
  <2>4. CASE ~WalkDone(s)
    <3>1. t = Explore(u, s)  BY <2>1, <2>4 DEF WalkTurn
    <3>2. Len(s.stack) - Cardinality(Out(s.visited)) = 1 - k  BY <1>4, <2>4
    <3>3. \/ Explore(u, s).cycle
          \/ Len(Explore(u, s).stack) - Cardinality(Out(Explore(u, s).visited)) =
               Len(s.stack) - Cardinality(Out(s.visited)) - 1
      <4> HIDE DEF s
      <4> QED  BY <2>1, <2>4, ExploreWalks
    <3>4. CASE Explore(u, s).cycle  BY <2>2, <3>1, <3>4 DEF WalkDone
    <3>5. CASE ~Explore(u, s).cycle
      <4>1. Len(t.stack) - Cardinality(Out(t.visited)) = 1 - (k + 1)
        BY <2>2, <3>1, <3>2, <3>3, <3>5
      <4> QED  BY <2>2, <4>1
    <3> QED  BY <3>4, <3>5
  <2> QED  BY <2>3, <2>4
<1>5. L + 1 \in P
  <2> HIDE DEF P
  <2>1. Nat \subseteq P  BY <1>3, <1>4, Induction
  <2> QED  BY <1>2, <2>1
<1> DEFINE s == h[L + 1]
<1>6. s \in WalkState /\ Walked(u, d, s)
  <2>1. L + 1 \in Nat  BY <1>2
  <2> QED  BY <1>1, <2>1 DEF Walking
<1>7. s.cycle \/ s.stack = <<>>
  <2>1. SUFFICES ASSUME Len(s.stack) - Cardinality(Out(s.visited)) = 1 - (L + 1)
                 PROVE  s.stack = <<>>
    BY <1>5 DEF WalkDone
  <2>2. s.stack \in Seq(Node)  BY <1>6 DEF WalkState
  <2> HIDE DEF s
  <2>3. Out(s.visited) \subseteq Links  BY DEF Out
  <2>4. Cardinality(Out(s.visited)) \in Nat /\ Cardinality(Out(s.visited)) <= L
    BY <2>3, LinksFinite, FS_Subset, FS_CardinalityType DEF L
  <2> DEFINE ls == Len(s.stack)
             co == Cardinality(Out(s.visited))
  <2>5. ls \in Nat  BY <2>2, LenProperties
  <2>6. ls - co = 1 - (L + 1) /\ co \in Nat /\ co <= L  BY <2>1, <2>4
  <2>7. ls = 0
    <3> HIDE DEF ls, co
    <3> QED  BY <1>2, <2>5, <2>6
  <2> QED  BY <2>2, <2>7, EmptySeq
<1> HIDE DEF s
<1>8. ASSUME s.stack = <<>> PROVE u \notin Reachable(d)
  <2>1. DOMAIN s.stack = {} /\ ToSet(s.stack) = {}  BY <1>8 DEF ToSet
  <2>2. d \in s.visited /\ \A x \in s.visited : DependentsOf(x) \subseteq s.visited
    BY <1>6, <2>1 DEF Walked
  <2>3. s.visited \in SUBSET Node  BY <1>6 DEF WalkState
  <2>4. Reachable(d) \subseteq s.visited  BY <2>2, <2>3, ReachableWithin
  <2> QED  BY <1>6, <2>4 DEF Walked
<1>9. s.cycle => u \in Reachable(d)  BY <1>6 DEF Walked
<1>10. s = CycleSearch(u, d)[Cardinality(Links) + 1]  BY DEF s, h, L
<1>11. s.cycle \in BOOLEAN  BY <1>6 DEF WalkState
<1>12. s.cycle <=> WouldCycle(u, d)  BY <1>7, <1>8, <1>9, <1>11 DEF WouldCycle
<1> QED  BY <1>7, <1>10, <1>12 DEF CycleSearchExact

-----------------------------------------------------------------------------
(* Few nodes are known                                                     *)

LEMMA KnownFiniteStep ==
  ASSUME StateTypeOK, IsFiniteSet(Known), [StateNext]_svars
  PROVE  IsFiniteSet(Known)'
<1>1. CASE UNCHANGED nodes  BY <1>1 DEF Known
<1>2. CASE \E n \in Node, revision \in Revision : \E identity \in Identities[n] :
             AddNode(n, identity, revision)
  <2>1. PICK n \in Node, revision \in Revision :
          \E identity \in Identities[n] : AddNode(n, identity, revision)
    BY <1>2
  <2>2. \A m \in Node \ {n} : nodes'[m] = nodes[m]  BY <2>1 DEF AddNode, StateTypeOK
  <2>3. Known' \subseteq Known \cup {n}  BY <2>2 DEF Known
  <2>4. IsFiniteSet(Known \cup {n})  BY FS_AddElement
  <2>5. IsFiniteSet(Known')  BY <2>3, <2>4, FS_Subset
  <2> QED  BY <2>5
<1> QED  BY <1>1, <1>2 DEF StateNext, AddDependency, svars

\* In every state of the graph, for any nodes, the two searches end and return what they
\* should: stale_nodes each stale node once, each with its reason, and _would_cycle whether
\* the new dependency would close a cycle.
THEOREM SearchesAlwaysExact == StateSpec => []SearchesExact
<1> DEFINE Inv == StateTypeOK /\ IsFiniteSet(Known)
<1>1. StateInit => Inv
  <2>1. StateInit => StateTypeOK  BY DEF StateInit, StateTypeOK
  <2>2. StateInit => Known = {}  BY DEF StateInit, Known
  <2> QED  BY <2>1, <2>2, FS_EmptySet
<1>2. Inv /\ [StateNext]_svars => Inv'  BY TypeStep, KnownFiniteStep
<1>3. Inv => SearchesExact
  BY StaleSearchIsExact, CycleSearchIsExact, NodeAssumption DEF SearchesExact
<1> HIDE DEF Inv
<1> QED  BY <1>1, <1>2, <1>3, PTL DEF StateSpec
=============================================================================
