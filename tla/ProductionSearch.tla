-------------------------- MODULE ProductionSearch --------------------------
(***************************************************************************)
(* The two searches of src/studio/production_state.py as they are written, *)
(* loop turn by loop turn, against the sets ProductionState defines by     *)
(* closure.                                                                *)
(***************************************************************************)
EXTENDS ProductionState, Sequences, FiniteSets, SequencesExt

\* sorted(): the nodes of S in the order of their ids.
InOrder(S) ==
  CHOOSE f \in [1..Cardinality(S) -> S] : \A i, j \in DOMAIN f : i < j => f[i] < f[j]

\* Mutant of NewTo: a node is queued again when it is found again.
NewToQueueOnly(found, seen) == found
NewTo(found, seen) == found \ seen

\* stale_nodes: breadth first, dependents in order, each node once.  An
\* invalidation is a node and the upstream its reason names.
Visit(s) ==
  LET current == Head(s.queue)
      new == InOrder(NewTo(DependentsOf(current), s.seen))
  IN [queue |-> Tail(s.queue) \o new,
      seen |-> s.seen \cup ToSet(new),
      found |-> s.found \o [i \in DOMAIN new |-> [node |-> new[i], because |-> current]]]
\* StaleSearch(changed)[k]: after k turns of its loop, or after the last.
StaleSearch(changed) ==
  LET after[k \in Nat] ==
        IF k = 0 THEN [queue |-> <<changed>>, seen |-> {}, found |-> <<>>]
        ELSE LET s == after[k - 1] IN IF s.queue = <<>> THEN s ELSE Visit(s)
  IN after

\* _would_cycle: depth first with a stack; children come in any order.  The
\* dependency that is to be added starts at the node the search ends with.
Explore(u, s) ==
  LET current == Last(s.stack)
      rest == Front(s.stack)
  IN IF current = u THEN [s EXCEPT !.cycle = TRUE]
     ELSE IF current \in s.visited THEN [s EXCEPT !.stack = rest]
     ELSE [stack |-> rest \o SetToSeq(DependentsOf(current)),
           visited |-> s.visited \cup {current}, cycle |-> FALSE]
CycleSearch(u, d) ==
  LET after[k \in Nat] ==
        IF k = 0 THEN [stack |-> <<d>>, visited |-> {}, cycle |-> FALSE]
        ELSE LET s == after[k - 1] IN IF s.cycle \/ s.stack = <<>> THEN s ELSE Explore(u, s)
  IN after

\* The breadth first search ends, at a turn for each known node at most, and has
\* then returned each stale node once, and nothing else, with a reason that names
\* a direct upstream which is the changed node or was returned before.
StaleSearchExact(n) ==
  LET end == StaleSearch(n)[Cardinality(Known) + 1]
      found == end.found
  IN /\ end.queue = <<>>
     /\ {found[i].node : i \in DOMAIN found} = StaleNodes(n)
     /\ \A i, j \in DOMAIN found : found[i].node = found[j].node => i = j
     /\ \A i \in DOMAIN found :
          /\ found[i].node \in DependentsOf(found[i].because)
          /\ found[i].because = n \/ \E j \in 1..i - 1 : found[j].node = found[i].because
\* The depth first search ends, at a turn for each link at most, and has then found
\* a cycle exactly when there would be one.
Links == {<<e.upstream, e.downstream>> : e \in dependencies}
CycleSearchExact(u, d) ==
  LET end == CycleSearch(u, d)[Cardinality(Links) + 1]
  IN /\ end.cycle \/ end.stack = <<>>
     /\ end.cycle <=> WouldCycle(u, d)

\* Both searches end and return what they should, in every state of the graph
\* (stale_nodes, _would_cycle).
SearchesExact ==
  \A n \in Known :
    StaleSearchExact(n) /\ \A d \in Known \ {n} : CycleSearchExact(n, d)
=============================================================================
