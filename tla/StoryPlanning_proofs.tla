------------------------ MODULE StoryPlanning_proofs ------------------------
(***************************************************************************)
(* What StoryPlanning keeps for any texts, bibles, readings and order of   *)
(* edits, drafts, renumberings and packages: ChronologyKept,               *)
(* AcceptedInOrder and SurgicalChange.                                     *)
(*                                                                         *)
(* The inductive invariant says that the plan is the plan of its reading   *)
(* with the shots of some scenes numbered by their places: reorder_shots   *)
(* may not change the order of the events, and each shot depicts an event  *)
(* of its own, so it can only renumber.  The same holds of the graph and   *)
(* the reading it was made from.  What a plan revised in this way says of  *)
(* its events, dialogue and ids does not depend on which scenes they were. *)
(***************************************************************************)
EXTENDS StoryPlanning, Recursion_proofs, TLAPS

-----------------------------------------------------------------------------
(* The plan's listings                                                     *)

\* Listing lists a finite set of numbers: each of its numbers, in increasing order.
LEMMA ListingLists ==
  ASSUME NEW T \in SUBSET Nat, IsFiniteSet(T)
  PROVE  /\ Cardinality(T) \in Nat
         /\ Listing(T) \in [1..Cardinality(T) -> T]
         /\ \A i, j \in 1..Cardinality(T) : i < j => Listing(T)[i] < Listing(T)[j]
         /\ \A x \in T : \E i \in 1..Cardinality(T) : Listing(T)[i] = x
<1> DEFINE n == Cardinality(T)
           Increasing(f) == \A i, j \in DOMAIN f : i < j => f[i] < f[j]
<1>1. n \in Nat  BY FS_CardinalityType
<1>2. \E f \in [1..n -> T] : \A i, j \in 1..n : i < j => f[i] < f[j]
  BY <1>1, ListedAll DEF Listed
<1>3. \E f \in [1..n -> T] : Increasing(f)  BY <1>2
<1>4. Listing(T) \in [1..n -> T] /\ Increasing(Listing(T))  BY <1>3 DEF Listing
<1> HIDE DEF n, Increasing
<1>5. \A i, j \in 1..n : i < j => Listing(T)[i] < Listing(T)[j]  BY <1>4 DEF Increasing
<1>6. \A x \in T : \E i \in 1..n : Listing(T)[i] = x  BY <1>4, <1>5, OrderedIsComplete DEF n
<1> QED  BY <1>1, <1>4, <1>5, <1>6 DEF n

-----------------------------------------------------------------------------
(* The plan of a sound reading                                             *)

\* What build_episode_draft has checked of a reading, but for the bible.
Sound(r) ==
  /\ r.events \in Seq(ToSet(r.events))
  /\ IsInjective([i \in DOMAIN r.events |-> r.events[i].id])
  /\ Chronological(r.events)

\* The places of the events are numbers.
LEMMA Places ==
  ASSUME NEW r, Sound(r)
  PROVE  /\ DOMAIN r.events \subseteq Nat /\ IsFiniteSet(DOMAIN r.events)
         /\ \A i \in DOMAIN r.events : r.events[i] \in ToSet(r.events)
         /\ \A i, j \in DOMAIN r.events : r.events[i].id = r.events[j].id => i = j
         /\ \A i \in DOMAIN r.events : r.events[i].order \in Nat \ {0}
         /\ \A i, j \in DOMAIN r.events : i < j => r.events[i].order < r.events[j].order
<1>1. Len(r.events) \in Nat /\ DOMAIN r.events = 1..Len(r.events)  BY DEF Sound
<1>2. IsFiniteSet(1..Len(r.events))  BY <1>1, FS_Interval
<1>3. \A i, j \in DOMAIN r.events : r.events[i].id = r.events[j].id => i = j
  BY DEF Sound, IsInjective
<1> QED  BY <1>1, <1>2, <1>3 DEF Sound, Chronological, ToSet

\* A scene's events are those of the reading that name it, each once, in its order.
LEMMA EventsAre ==
  ASSUME NEW r, Sound(r), NEW s
  PROVE  LET ev == EventsOf(r, s) IN
         /\ \E m \in Nat : ev = [i \in 1..m |-> ev[i]]
         /\ \A i \in DOMAIN ev : ev[i] \in ToSet(r.events) /\ ev[i].scene = s
         /\ \A i, j \in DOMAIN ev : i < j => ev[i].order < ev[j].order
         /\ \A i, j \in DOMAIN ev : ev[i].id = ev[j].id => i = j
         /\ \A e \in ToSet(r.events) : e.scene = s => \E i \in DOMAIN ev : ev[i] = e
<1> DEFINE T == PlacesOf(r, s)
           f == Listing(T)
           m == Cardinality(T)
           ev == EventsOf(r, s)
<1>1. T \subseteq DOMAIN r.events  BY DEF PlacesOf
<1>2. T \in SUBSET Nat /\ IsFiniteSet(T)  BY <1>1, Places, FS_Subset
<1>3. /\ m \in Nat /\ f \in [1..m -> T]
      /\ \A i, j \in 1..m : i < j => f[i] < f[j]
      /\ \A x \in T : \E i \in 1..m : f[i] = x
  <2> HIDE DEF T
  <2> QED  BY <1>2, ListingLists
<1> HIDE DEF f, m
<1>4. ev = [i \in 1..m |-> r.events[f[i]]]  BY <1>3 DEF EventsOf, EventsAt, f
<1> HIDE DEF ev
<1>5. \A i \in 1..m : f[i] \in DOMAIN r.events /\ r.events[f[i]].scene = s
  BY <1>3 DEF PlacesOf
<1>6. \A i, j \in 1..m : f[i] = f[j] => i = j
  <2> SUFFICES ASSUME NEW i \in 1..m, NEW j \in 1..m, f[i] = f[j] PROVE i = j  OBVIOUS
  <2>1. f[i] \in Nat /\ i \in Nat /\ j \in Nat  BY <1>2, <1>3
  <2>2. ~(i < j) /\ ~(j < i)  BY <1>3, <2>1
  <2> QED  BY <2>1, <2>2
<1>7. \A i \in DOMAIN ev : ev[i] \in ToSet(r.events) /\ ev[i].scene = s
  BY <1>4, <1>5, Places
<1>8. \A i, j \in DOMAIN ev : i < j => ev[i].order < ev[j].order  BY <1>3, <1>4, <1>5, Places
<1>9. \A i, j \in DOMAIN ev : ev[i].id = ev[j].id => i = j  BY <1>4, <1>5, <1>6, Places
<1>10. ASSUME NEW e \in ToSet(r.events), e.scene = s PROVE \E i \in DOMAIN ev : ev[i] = e
  <2>1. PICK x \in DOMAIN r.events : r.events[x] = e  BY DEF ToSet
  <2>2. x \in T  BY <1>10, <2>1 DEF PlacesOf
  <2>3. PICK i \in 1..m : f[i] = x  BY <1>3, <2>2
  <2> QED  BY <1>4, <2>1, <2>3
<1> QED  BY <1>3, <1>4, <1>7, <1>8, <1>9, <1>10 DEF ev

\* The scenes are those the events name, each once.
LEMMA ScenesAre ==
  ASSUME NEW r, Sound(r)
  PROVE  LET S == ScenesInOrder(r) IN
         /\ \E n \in Nat : S = [k \in 1..n |-> S[k]]
         /\ \A k \in DOMAIN S : S[k] \in SceneIds(r)
         /\ \A k, l \in DOMAIN S : S[k] = S[l] => k = l
         /\ \A s \in SceneIds(r) : \E k \in DOMAIN S : S[k] = s
<1> DEFINE T == FirstPlaces(r)
           f == Listing(T)
           n == Cardinality(T)
           S == ScenesInOrder(r)
<1>1. T \subseteq DOMAIN r.events  BY DEF FirstPlaces
<1>2. T \in SUBSET Nat /\ IsFiniteSet(T)  BY <1>1, Places, FS_Subset
<1>3. /\ n \in Nat /\ f \in [1..n -> T]
      /\ \A i, j \in 1..n : i < j => f[i] < f[j]
      /\ \A x \in T : \E i \in 1..n : f[i] = x
  <2> HIDE DEF T
  <2> QED  BY <1>2, ListingLists
<1> HIDE DEF f, n
<1>4. S = [k \in 1..n |-> r.events[f[k]].scene]  BY <1>3 DEF ScenesInOrder, EventsAt, f
<1> HIDE DEF S
<1>5. \A k \in DOMAIN S : S[k] \in SceneIds(r)
  <2>1. \A k \in 1..n : f[k] \in DOMAIN r.events  BY <1>1, <1>3
  <2> QED  BY <1>4, <2>1, Places DEF SceneIds
<1>6. ASSUME NEW k \in DOMAIN S, NEW l \in DOMAIN S, S[k] = S[l] PROVE k = l
  <2>1. k \in 1..n /\ l \in 1..n /\ f[k] \in T /\ f[l] \in T  BY <1>3, <1>4
  <2>2. f[k] \in PlacesOf(r, r.events[f[l]].scene) /\ f[l] \in PlacesOf(r, r.events[f[k]].scene)
    BY <1>1, <1>4, <1>6, <2>1 DEF PlacesOf
  <2>3. f[k] <= f[l] /\ f[l] <= f[k]  BY <2>1, <2>2 DEF FirstPlaces
  <2>4. f[k] \in Nat /\ f[l] \in Nat /\ k \in Nat /\ l \in Nat  BY <1>2, <1>3, <2>1
  <2>5. f[k] = f[l]  BY <2>3, <2>4
  <2>6. ~(k < l) /\ ~(l < k)  BY <1>3, <2>1, <2>4, <2>5
  <2> QED  BY <2>4, <2>6
<1>7. ASSUME NEW s \in SceneIds(r) PROVE \E k \in DOMAIN S : S[k] = s
  <2>1. PICK y \in DOMAIN r.events : r.events[y].scene = s  BY DEF SceneIds, ToSet
  <2>2. PlacesOf(r, s) \subseteq Nat /\ PlacesOf(r, s) # {}  BY <2>1, Places DEF PlacesOf
  <2>3. PICK x \in PlacesOf(r, s) : \A z \in PlacesOf(r, s) : x <= z  BY <2>2, LeastNumber
  <2>4. x \in T /\ r.events[x].scene = s  BY <2>3 DEF FirstPlaces, PlacesOf
  <2>5. PICK k \in 1..n : f[k] = x  BY <1>3, <2>4
  <2> QED  BY <1>4, <2>4, <2>5
<1> QED  BY <1>3, <1>4, <1>5, <1>6, <1>7 DEF S

-----------------------------------------------------------------------------
(* Revised plans                                                           *)

\* The plan of r with the shots of the scenes at K numbered by their places: it has the
\* scenes and dialogue of the draft, and a shot for each event, in its own scene.
Events(r, k) == EventsOf(r, ScenesInOrder(r)[k])
OrderAt(r, K, k, i) == IF k \in K THEN i ELSE Events(r, k)[i].order
DialogueAt(r, k, i) == ShotOf(r, Events(r, k)[i], i = 1).dialogue
ShotAt(r, K, k, i) ==
  [id |-> <<ScenesInOrder(r)[k], Events(r, k)[i].order>>, scene |-> ScenesInOrder(r)[k],
   order |-> OrderAt(r, K, k, i), cast |-> Events(r, k)[i].cast,
   place |-> Events(r, k)[i].place, events |-> {Events(r, k)[i].id},
   dialogue |-> DialogueAt(r, k, i)]
SceneAt(r, K, k) ==
  [id |-> ScenesInOrder(r)[k], order |-> k, described |-> SceneOf(r, k).described,
   place |-> SceneOf(r, k).place, cast |-> SceneOf(r, k).cast, events |-> Events(r, k),
   shots |-> [i \in DOMAIN Events(r, k) |-> ShotAt(r, K, k, i)]]
Revised(r, K) ==
  [scenes |-> [k \in DOMAIN ScenesInOrder(r) |-> SceneAt(r, K, k)], review |-> PlanOf(r).review]

\* A plan is drafted with no scene renumbered.
LEMMA DraftIsRevised ==
  ASSUME NEW r, Sound(r)
  PROVE  PlanOf(r) = Revised(r, {})
<1>1. ASSUME NEW k \in DOMAIN ScenesInOrder(r), NEW i, i \in DOMAIN Events(r, k)
      PROVE  ShotOf(r, Events(r, k)[i], i = 1) = ShotAt(r, {}, k, i)
  <2> DEFINE e == Events(r, k)[i]
  <2>1. e.scene = ScenesInOrder(r)[k]  BY <1>1, EventsAre DEF Events
  <2> QED  BY <2>1 DEF ShotOf, ShotId, ShotAt, OrderAt, DialogueAt
<1>2. ASSUME NEW k \in DOMAIN ScenesInOrder(r) PROVE SceneOf(r, k) = SceneAt(r, {}, k)
  <2> DEFINE shots == [i \in DOMAIN Events(r, k) |-> ShotOf(r, Events(r, k)[i], i = 1)]
  <2>1. shots = [i \in DOMAIN Events(r, k) |-> ShotAt(r, {}, k, i)]  BY <1>1
  <2>2. /\ SceneOf(r, k).id = ScenesInOrder(r)[k] /\ SceneOf(r, k).order = k
        /\ SceneOf(r, k).events = Events(r, k) /\ SceneOf(r, k).shots = shots
    BY DEF SceneOf, Events
  <2>3. SceneOf(r, k) = [id |-> SceneOf(r, k).id, order |-> SceneOf(r, k).order,
                         described |-> SceneOf(r, k).described, place |-> SceneOf(r, k).place,
                         cast |-> SceneOf(r, k).cast, events |-> SceneOf(r, k).events,
                         shots |-> SceneOf(r, k).shots]
    BY DEF SceneOf
  <2> HIDE DEF shots
  <2> QED  BY <2>1, <2>2, <2>3 DEF SceneAt
<1> QED  BY <1>2 DEF PlanOf, Revised

\* The shots of the plan are those of its scenes.
LEMMA ShotsAre ==
  ASSUME NEW r, NEW K, NEW h
  PROVE  h \in Shots(Revised(r, K)) <=>
           \E k \in DOMAIN ScenesInOrder(r) : \E i \in DOMAIN Events(r, k) : h = ShotAt(r, K, k, i)
<1> DEFINE p == Revised(r, K)
<1>1. DOMAIN p.scenes = DOMAIN ScenesInOrder(r)  BY DEF Revised
<1>2. \A k \in DOMAIN p.scenes :
        p.scenes[k].shots = [i \in DOMAIN Events(r, k) |-> ShotAt(r, K, k, i)]
  BY DEF Revised, SceneAt
<1> HIDE DEF p
<1>3. h \in Shots(p) <=> \E k \in DOMAIN p.scenes : h \in ToSet(p.scenes[k].shots)
  BY DEF Shots, ToSet
<1>4. \A k \in DOMAIN p.scenes : h \in ToSet(p.scenes[k].shots) <=>
        \E i \in DOMAIN Events(r, k) : h = ShotAt(r, K, k, i)
  BY <1>2 DEF ToSet
<1> QED  BY <1>1, <1>3, <1>4 DEF p

Reordered(p, k, order) == [p EXCEPT !.scenes[k].shots = Renumbered(@, order)]

\* Reordering the shots of a scene can only number them by their places: the events
\* must stay in their order, and each is depicted once.
LEMMA ReorderRevises ==
  ASSUME NEW r, Sound(r), NEW K, NEW k \in DOMAIN ScenesInOrder(r), NEW order,
         MayReorder(Revised(r, K).scenes[k].shots, order)
  PROVE  Reordered(Revised(r, K), k, order) = Revised(r, K \cup {k})
<1> DEFINE shots == Revised(r, K).scenes[k].shots
           D == DOMAIN Events(r, k)
<1>1. shots = [i \in D |-> ShotAt(r, K, k, i)]  BY DEF Revised, SceneAt
<1>2. DOMAIN shots = D  BY <1>1
<1>3. order \in [D -> D]
  BY <1>2 DEF MayReorder, Bijection, Injection
<1>4. ASSUME NEW i \in D PROVE order[i] = i
  <2>1. shots[order[i]].events = shots[i].events
    <3> HIDE DEF shots
    <3>1. DepictedBy([j \in DOMAIN shots |-> shots[order[j]]]) = DepictedBy(shots)
      BY DEF MayReorder, shots
    <3>2. [j \in D |-> shots[order[j]].events] = [j \in D |-> shots[j].events]
      BY <1>2, <3>1 DEF DepictedBy
    <3> QED  BY <3>2
  <2>2. order[i] \in D  BY <1>3
  <2>3. shots[order[i]] = ShotAt(r, K, k, order[i]) /\ shots[i] = ShotAt(r, K, k, i)
    BY <1>1, <2>2
  <2>4. ShotAt(r, K, k, order[i]).events = ShotAt(r, K, k, i).events
    <3> HIDE DEF shots
    <3> QED  BY <2>1, <2>3
  <2>5. Events(r, k)[order[i]].id = Events(r, k)[i].id
    <3>1. \A j : ShotAt(r, K, k, j).events = {Events(r, k)[j].id}  BY DEF ShotAt
    <3>2. Events(r, k)[order[i]].id \in {Events(r, k)[i].id}  BY <2>4, <3>1
    <3> QED  BY <3>2
  <2> QED  BY <2>2, <2>5, EventsAre DEF Events
<1>5. Renumbered(shots, order) = [i \in D |-> ShotAt(r, K \cup {k}, k, i)]
  <2>1. ASSUME NEW i \in D
        PROVE  [shots[order[i]] EXCEPT !.order = i] = ShotAt(r, K \cup {k}, k, i)
    <3>1. shots[order[i]] = ShotAt(r, K, k, i)  BY <1>1, <1>4
    <3> QED  BY <3>1 DEF ShotAt, OrderAt
  <2> QED  BY <1>2, <2>1 DEF Renumbered
<1> DEFINE scenes == Revised(r, K).scenes
<1>6. /\ scenes = [l \in DOMAIN ScenesInOrder(r) |-> SceneAt(r, K, l)]
      /\ Revised(r, K) = [scenes |-> scenes, review |-> PlanOf(r).review]
  BY DEF Revised
<1>7. [scenes[k] EXCEPT !.shots = Renumbered(@, order)] = SceneAt(r, K \cup {k}, k)
  <2> DEFINE new == [i \in D |-> ShotAt(r, K \cup {k}, k, i)]
             scene == SceneAt(r, K, k)
  <2>1. scenes[k] = SceneAt(r, K, k)  BY <1>6
  <2>2. [scenes[k] EXCEPT !.shots = Renumbered(@, order)]
          = [scene EXCEPT !.shots = new]
    BY <1>5, <2>1
  <2>3. SceneAt(r, K \cup {k}, k) =
          [id |-> scene.id, order |-> scene.order, described |-> scene.described,
           place |-> scene.place, cast |-> scene.cast, events |-> scene.events, shots |-> new]
    BY DEF SceneAt
  <2>4. scene = [id |-> scene.id, order |-> scene.order, described |-> scene.described,
                 place |-> scene.place, cast |-> scene.cast, events |-> scene.events,
                 shots |-> scene.shots]
    BY DEF SceneAt
  <2> HIDE DEF scenes, new, scene
  <2>5. [scene EXCEPT !.shots = new] = SceneAt(r, K \cup {k}, k)  BY <2>3, <2>4
  <2> QED  BY <2>2, <2>5
<1>8. \A l \in DOMAIN ScenesInOrder(r) : l # k => SceneAt(r, K \cup {k}, l) = SceneAt(r, K, l)
  <2>1. \A l : l # k => \A i : ShotAt(r, K \cup {k}, l, i) = ShotAt(r, K, l, i)
    BY DEF ShotAt, OrderAt
  <2> QED  BY <2>1 DEF SceneAt
<1>9. [scenes EXCEPT ![k].shots = Renumbered(@, order)]
        = [l \in DOMAIN ScenesInOrder(r) |-> SceneAt(r, K \cup {k}, l)]
  <2> HIDE DEF scenes
  <2> QED  BY <1>6, <1>7, <1>8
<1>10. [Revised(r, K) EXCEPT !.scenes[k].shots = Renumbered(@, order)]
         = [Revised(r, K) EXCEPT !.scenes = [scenes EXCEPT ![k].shots = Renumbered(@, order)]]
  BY DEF Revised
<1>11. Revised(r, K \cup {k})
         = [scenes |-> [l \in DOMAIN ScenesInOrder(r) |-> SceneAt(r, K \cup {k}, l)],
            review |-> PlanOf(r).review]
  BY DEF Revised
<1> DEFINE renumbered == [scenes EXCEPT ![k].shots = Renumbered(@, order)]
<1>12. renumbered = [l \in DOMAIN ScenesInOrder(r) |-> SceneAt(r, K \cup {k}, l)]  BY <1>9
<1>13. [Revised(r, K) EXCEPT !.scenes[k].shots = Renumbered(@, order)]
         = [Revised(r, K) EXCEPT !.scenes = renumbered]
  BY <1>10
<1> HIDE DEF scenes, renumbered
<1>14. Revised(r, K) = [scenes |-> scenes, review |-> PlanOf(r).review]  BY <1>6
<1>15. [Revised(r, K) EXCEPT !.scenes = renumbered]
         = [scenes |-> renumbered, review |-> PlanOf(r).review]
  BY <1>14
<1> QED  BY <1>11, <1>12, <1>13, <1>15 DEF Reordered

\* Two shots of a plan depict two events.
LEMMA OneShot ==
  ASSUME NEW r, Sound(r),
         NEW k \in DOMAIN ScenesInOrder(r), NEW i, i \in DOMAIN Events(r, k),
         NEW l \in DOMAIN ScenesInOrder(r), NEW j, j \in DOMAIN Events(r, l),
         Events(r, k)[i].id = Events(r, l)[j].id
  PROVE  k = l /\ i = j
<1>1. /\ Events(r, k)[i] \in ToSet(r.events) /\ Events(r, k)[i].scene = ScenesInOrder(r)[k]
      /\ Events(r, l)[j] \in ToSet(r.events) /\ Events(r, l)[j].scene = ScenesInOrder(r)[l]
  BY EventsAre DEF Events
<1>2. Events(r, k)[i] = Events(r, l)[j]  BY <1>1, Places DEF ToSet
<1>3. k = l  BY <1>1, <1>2, ScenesAre
<1> QED  BY <1>2, <1>3, EventsAre DEF Events

\* However the shots of a scene are numbered, they come in the order of its events.
LEMMA OrdersAgree ==
  ASSUME NEW r, Sound(r), NEW K, NEW k \in DOMAIN ScenesInOrder(r),
         NEW i, i \in DOMAIN Events(r, k), NEW j, j \in DOMAIN Events(r, k)
  PROVE  /\ i \in Nat \ {0} /\ OrderAt(r, K, k, i) \in Nat \ {0}
         /\ OrderAt(r, K, k, i) < OrderAt(r, K, k, j) <=> i < j
         /\ Events(r, k)[i].order < Events(r, k)[j].order <=> i < j
         /\ OrderAt(r, K, k, i) = OrderAt(r, K, k, j) => i = j
<1> DEFINE ev == Events(r, k)
<1>1. /\ \A a \in DOMAIN ev : ev[a] \in ToSet(r.events)
      /\ \A a, b \in DOMAIN ev : a < b => ev[a].order < ev[b].order
  BY EventsAre DEF Events
<1>2. i \in Nat \ {0} /\ j \in Nat \ {0}  BY EventsAre DEF Events
<1>3. ev[i].order \in Nat \ {0} /\ ev[j].order \in Nat \ {0}
  <2>1. \A e \in ToSet(r.events) : e.order \in Nat \ {0}  BY Places DEF ToSet
  <2> QED  BY <1>1, <2>1
<1> DEFINE a == ev[i].order
           c == ev[j].order
<1>4. /\ i < j => a < c
      /\ j < i => c < a
  BY <1>1
<1>5. a \in Nat \ {0} /\ c \in Nat \ {0}  BY <1>3
<1> HIDE DEF a, c
<1>6. i = j => a = c  BY DEF a, c
<1>7. /\ a < c <=> i < j
      /\ a = c => i = j
  BY <1>2, <1>4, <1>5, <1>6
<1>8. CASE k \in K
  <2>1. OrderAt(r, K, k, i) = i /\ OrderAt(r, K, k, j) = j  BY <1>8 DEF OrderAt
  <2> QED  BY <1>2, <1>7, <2>1 DEF a, c
<1>9. CASE k \notin K
  <2>1. OrderAt(r, K, k, i) = a /\ OrderAt(r, K, k, j) = c  BY <1>9 DEF OrderAt, a, c
  <2> QED  BY <1>2, <1>5, <1>7, <2>1 DEF a, c
<1> QED  BY <1>8, <1>9

-----------------------------------------------------------------------------
(* The inductive invariant                                                 *)

ReadingInv == reading = None \/ \E r \in Readings : reading.events = r.events
PlanInv ==
  \/ plan = NoPlan
  \/ Sound(canon) /\ canon.source = drafted /\ \E K : plan = Revised(canon, K)
GraphInv ==
  \/ graph = NoGraph
  \/ Sound(graph.of) /\ \E K : graph.nodes = NodesOf(Revised(graph.of, K))
PlanningInv == ReadingInv /\ PlanInv /\ GraphInv

\* A change of the plan leaves one that is revised of its reading.
LEMMA PlanStep ==
  ASSUME ReadingInv, PlanInv, PlanningNext, plan' # plan \/ canon' # canon \/ drafted' # drafted
  PROVE  Sound(canon') /\ canon'.source = drafted' /\ \E K : plan' = Revised(canon', K)
<1>1. CASE Draft
  <2>1. Sound(reading) /\ reading.source = text
    <3>1. PICK r \in Readings : reading.events = r.events  BY <1>1 DEF Draft, ReadingInv
    <3>2. reading.events \in Seq(ToSet(reading.events))  BY <3>1, ReadingAssumption
    <3> QED  BY <1>1, <3>2 DEF Draft, ValidReading, Sound
  <2>2. plan' = Revised(reading, {})  BY <1>1, <2>1, DraftIsRevised DEF Draft
  <2> QED  BY <1>1, <2>1, <2>2 DEF Draft
<1>2. ASSUME NEW k \in DOMAIN plan.scenes, NEW order, Reorder(k, order)
      PROVE  Sound(canon') /\ canon'.source = drafted' /\ \E K : plan' = Revised(canon', K)
  <2>1. plan # NoPlan
    <3>1. DOMAIN NoPlan.scenes = {}  BY DEF NoPlan
    <3> QED  BY <1>2, <3>1
  <2>2. PICK K : plan = Revised(canon, K)  BY <2>1 DEF PlanInv
  <2>3. Sound(canon) /\ canon.source = drafted  BY <2>1 DEF PlanInv
  <2>4. k \in DOMAIN ScenesInOrder(canon)  BY <1>2, <2>2 DEF Revised
  <2>5. plan' = Revised(canon, K \cup {k})
    <3>1. plan' = Reordered(plan, k, order)  BY <1>2 DEF Reorder, Reordered
    <3>2. MayReorder(Revised(canon, K).scenes[k].shots, order)  BY <1>2, <2>2 DEF Reorder
    <3> QED  BY <2>2, <2>3, <2>4, <3>1, <3>2, ReorderRevises
  <2> QED  BY <1>2, <2>3, <2>5 DEF Reorder
<1>3. Draft \/ \E k \in DOMAIN plan.scenes : \E order : Reorder(k, order)
  BY DEF PlanningNext, Edit, Revise, Interpret, MakePackage, Materialise
<1> QED  BY <1>1, <1>2, <1>3

\* Only interpreting writes the reading, and only building the graph writes the graph.
LEMMA PlanningStep_Inv == PlanningInv /\ [PlanningNext]_vars => PlanningInv'
<1> SUFFICES ASSUME PlanningInv, [PlanningNext]_vars PROVE PlanningInv'  OBVIOUS
<1>1. ReadingInv'
  <2>1. ASSUME NEW r \in Readings, Interpret(r) PROVE ReadingInv'
    <3>1. reading'.events = r.events  BY <2>1 DEF Interpret
    <3> QED  BY <3>1 DEF ReadingInv
  <2>2. CASE reading' = reading  BY <2>2 DEF PlanningInv, ReadingInv
  <2> QED  BY <2>1, <2>2
             DEF PlanningNext, vars, Edit, Revise, Draft, Reorder, MakePackage, Materialise
<1>2. PlanInv'
  <2>1. CASE plan' = plan /\ canon' = canon /\ drafted' = drafted
    BY <2>1 DEF PlanningInv, PlanInv
  <2>2. CASE plan' # plan \/ canon' # canon \/ drafted' # drafted
    <3>1. PlanningNext  BY <2>2 DEF vars
    <3> QED  BY <2>2, <3>1, PlanStep DEF PlanningInv, PlanInv
  <2> QED  BY <2>1, <2>2
<1>3. GraphInv'
  <2>1. CASE Materialise
    <3>1. plan # NoPlan /\ graph' = [of |-> canon, nodes |-> NodesOf(plan)]
      BY <2>1 DEF Materialise
    <3>2. Sound(canon) /\ \E K : plan = Revised(canon, K)  BY <3>1 DEF PlanningInv, PlanInv
    <3>3. graph'.of = canon /\ graph'.nodes = NodesOf(plan)  BY <3>1
    <3> QED  BY <3>2, <3>3 DEF GraphInv
  <2>2. CASE graph' = graph  BY <2>2 DEF PlanningInv, GraphInv
  <2> QED  BY <2>1, <2>2
             DEF PlanningNext, vars, Edit, Revise, Interpret, Draft, Reorder, MakePackage
<1> QED  BY <1>1, <1>2, <1>3 DEF PlanningInv

\* A new production has no reading, no plan and no graph.
LEMMA PlanningInvariant == PlanningSpec => []PlanningInv
<1>1. PlanningInit => PlanningInv
  BY DEF PlanningInit, PlanningInv, ReadingInv, PlanInv, GraphInv
<1> QED  BY <1>1, PlanningStep_Inv, PTL DEF PlanningSpec

-----------------------------------------------------------------------------
(* ChronologyKept                                                          *)

\* Each event of the reading is on one shot of the plan, in the event's scene.
LEMMA EventsOnShots ==
  ASSUME NEW r, Sound(r), NEW K, NEW e \in ToSet(r.events)
  PROVE  \E h \in Shots(Revised(r, K)) :
           /\ h.scene = e.scene
           /\ { g \in Shots(Revised(r, K)) : e.id \in g.events } = {h}
<1>1. PICK k \in DOMAIN ScenesInOrder(r) : ScenesInOrder(r)[k] = e.scene
  <2>1. e.scene \in SceneIds(r)  BY DEF SceneIds
  <2> QED  BY <2>1, ScenesAre
<1>2. PICK i \in DOMAIN Events(r, k) : Events(r, k)[i] = e
  <2>1. e.scene = ScenesInOrder(r)[k]  BY <1>1
  <2> QED  BY <2>1, EventsAre DEF Events
<1> DEFINE h == ShotAt(r, K, k, i)
<1>3. h \in Shots(Revised(r, K))  BY ShotsAre
<1>4. h.scene = e.scene /\ e.id \in h.events
  <2>1. h.scene = ScenesInOrder(r)[k] /\ h.events = {Events(r, k)[i].id}  BY DEF ShotAt
  <2> HIDE DEF h
  <2> QED  BY <1>1, <1>2, <2>1
<1>5. ASSUME NEW g \in Shots(Revised(r, K)), e.id \in g.events PROVE g = h
  <2>1. PICK l \in DOMAIN ScenesInOrder(r) : \E j \in DOMAIN Events(r, l) : g = ShotAt(r, K, l, j)
    BY ShotsAre
  <2>2. PICK j \in DOMAIN Events(r, l) : g = ShotAt(r, K, l, j)  BY <2>1
  <2>3. Events(r, l)[j].id = Events(r, k)[i].id  BY <1>2, <1>5, <2>2 DEF ShotAt
  <2>4. l = k /\ j = i  BY <2>3, OneShot
  <2> QED  BY <2>2, <2>4
<1> HIDE DEF h
<1> QED  BY <1>3, <1>4, <1>5

\* The shots of a scene are in the order of the events they depict.
LEMMA ShotsInOrder ==
  ASSUME NEW r, Sound(r), NEW K,
         NEW h \in Shots(Revised(r, K)), NEW g \in Shots(Revised(r, K)), Before(h, g),
         NEW d \in ToSet(r.events), NEW e \in ToSet(r.events), d.id \in h.events, e.id \in g.events
  PROVE  d.order < e.order
<1>1. PICK k \in DOMAIN ScenesInOrder(r) : \E i \in DOMAIN Events(r, k) : h = ShotAt(r, K, k, i)
  BY ShotsAre
<1>2. PICK i \in DOMAIN Events(r, k) : h = ShotAt(r, K, k, i)  BY <1>1
<1>3. PICK l \in DOMAIN ScenesInOrder(r) : \E j \in DOMAIN Events(r, l) : g = ShotAt(r, K, l, j)
  BY ShotsAre
<1>4. PICK j \in DOMAIN Events(r, l) : g = ShotAt(r, K, l, j)  BY <1>3
<1>5. l = k
  <2>1. ScenesInOrder(r)[k] = ScenesInOrder(r)[l]  BY <1>2, <1>4 DEF ShotAt, Before
  <2> QED  BY <2>1, ScenesAre
<1>6. OrderAt(r, K, k, i) < OrderAt(r, K, k, j)  BY <1>2, <1>4, <1>5 DEF ShotAt, Before
<1>7. Events(r, k)[i].order < Events(r, k)[j].order  BY <1>4, <1>5, <1>6, OrdersAgree
<1>8. d.id = Events(r, k)[i].id /\ e.id = Events(r, k)[j].id  BY <1>2, <1>4, <1>5 DEF ShotAt
<1>9. Events(r, k)[i] \in ToSet(r.events) /\ Events(r, k)[j] \in ToSet(r.events)
  BY <1>4, <1>5, EventsAre DEF Events
<1>10. d = Events(r, k)[i] /\ e = Events(r, k)[j]  BY <1>8, <1>9, Places DEF ToSet
<1> QED  BY <1>7, <1>10

\* Both together, for the plan and the reading at hand.
LEMMA PlanIsChronological == PlanningInv => ChronologyKept
<1> SUFFICES ASSUME PlanningInv, plan # NoPlan PROVE ChronologyKept  BY DEF ChronologyKept
<1>1. Sound(canon) /\ canon.source = drafted  BY DEF PlanningInv, PlanInv
<1>2. PICK K : plan = Revised(canon, K)  BY DEF PlanningInv, PlanInv
<1>3. \A e \in ToSet(canon.events) :
        \E h \in Shots(plan) : /\ h.scene = e.scene
                               /\ { g \in Shots(plan) : e.id \in g.events } = {h}
  BY <1>1, <1>2, EventsOnShots
<1>4. \A h, g \in Shots(plan) :
        Before(h, g) => \A d, e \in ToSet(canon.events) :
          (d.id \in h.events /\ e.id \in g.events) => d.order < e.order
  BY <1>1, <1>2, ShotsInOrder
<1> QED  BY <1>1, <1>3, <1>4 DEF ChronologyKept

\* Whatever the creator edits, drafts and drags, a plan tells each event of its reading on
\* one shot of the event's scene, and a scene's events in the story's order.
THEOREM ChronologyAlwaysKept == PlanningSpec => []ChronologyKept
BY PlanningInvariant, PlanIsChronological, PTL

-----------------------------------------------------------------------------
(* AcceptedInOrder                                                         *)

\* Two accepted packages name the places and events of two shots of one scene.
LEMMA PackagesInOrder == PlanningInv => AcceptedInOrder
<1> SUFFICES ASSUME PlanningInv, 
                    NEW g \in packages, Accepts(bible, plan, g),
                    NEW h \in packages, Accepts(bible, plan, h),
                    g.scene = h.scene, g.id # h.id
             PROVE  (g.order < h.order <=> g.id[2] < h.id[2]) /\ g.order # h.order
  BY DEF AcceptedInOrder
<1>1. plan # NoPlan
  <2>1. DOMAIN NoPlan.scenes = {}  BY DEF NoPlan
  <2> QED  BY <2>1 DEF Accepts
<1>2. PICK K : plan = Revised(canon, K)  BY <1>1 DEF PlanningInv, PlanInv
<1>3. Sound(canon)  BY <1>1 DEF PlanningInv, PlanInv
<1> DEFINE S == ScenesInOrder(canon)
<1>4. ASSUME NEW q, Accepts(bible, plan, q)
      PROVE  \E k \in DOMAIN S : /\ S[k] = q.scene
                                 /\ \E i \in DOMAIN Events(canon, k) :
                                      IsShot(ShotAt(canon, K, k, i), q)
  <2>1. PICK k \in DOMAIN plan.scenes : 
           /\ plan.scenes[k].id = q.scene
           /\ \E x \in ToSet(plan.scenes[k].shots) : IsShot(x, q)
    BY <1>4 DEF Accepts
  <2>2. k \in DOMAIN S /\ plan.scenes[k] = SceneAt(canon, K, k)  BY <1>2 DEF Revised
  <2>3. plan.scenes[k].id = S[k]  BY <2>2 DEF SceneAt
  <2>4. plan.scenes[k].shots = [i \in DOMAIN Events(canon, k) |-> ShotAt(canon, K, k, i)]
    BY <2>2 DEF SceneAt
  <2>5. \E i \in DOMAIN Events(canon, k) : IsShot(ShotAt(canon, K, k, i), q)
    BY <2>1, <2>4 DEF ToSet
  <2> QED  BY <2>1, <2>2, <2>3, <2>5
<1>5. PICK k \in DOMAIN S : /\ S[k] = g.scene
                            /\ \E i \in DOMAIN Events(canon, k) :
                                 IsShot(ShotAt(canon, K, k, i), g)
  BY <1>4
<1>6. PICK i \in DOMAIN Events(canon, k) : IsShot(ShotAt(canon, K, k, i), g)  BY <1>5
<1>7. PICK l \in DOMAIN S : /\ S[l] = h.scene
                            /\ \E j \in DOMAIN Events(canon, l) :
                                 IsShot(ShotAt(canon, K, l, j), h)
  BY <1>4
<1>8. l = k  BY <1>3, <1>5, <1>7, ScenesAre
<1>9. PICK j \in DOMAIN Events(canon, k) : IsShot(ShotAt(canon, K, k, j), h)  BY <1>7, <1>8
<1>10. /\ g.id = <<S[k], Events(canon, k)[i].order>> /\ g.order = OrderAt(canon, K, k, i)
       /\ h.id = <<S[k], Events(canon, k)[j].order>> /\ h.order = OrderAt(canon, K, k, j)
  BY <1>6, <1>9 DEF IsShot, ShotAt
<1>11. i # j  BY <1>10
<1>12. /\ OrderAt(canon, K, k, i) < OrderAt(canon, K, k, j) <=> i < j
       /\ Events(canon, k)[i].order < Events(canon, k)[j].order <=> i < j
       /\ OrderAt(canon, K, k, i) # OrderAt(canon, K, k, j)
  BY <1>3, <1>11, OrdersAgree
<1>13. g.id[2] = Events(canon, k)[i].order /\ h.id[2] = Events(canon, k)[j].order  BY <1>10
<1> QED  BY <1>10, <1>12, <1>13

\* The packages that validate against the plan as it is follow the story's order within
\* a scene, from whatever state of the plan each was made (validate_shot_package).
THEOREM PackagesKeepOrder == PlanningSpec => []AcceptedInOrder
BY PlanningInvariant, PackagesInOrder, PTL

-----------------------------------------------------------------------------
(* SurgicalChange                                                          *)

\* Two graphs of one reading have nodes of the same ids, and differ in shots alone.
LEMMA NodesDiffer ==
  ASSUME NEW r, NEW K, NEW L, NEW n \in NodesOf(Revised(r, K))
  PROVE  /\ \E m \in NodesOf(Revised(r, L)) : m.id = n.id
         /\ n.kind = "shot" \/ n \in NodesOf(Revised(r, L))
<1> DEFINE p == Revised(r, K)
           q == Revised(r, L)
           D == DOMAIN ScenesInOrder(r)
           NodeOf(s) == [id |-> s.id, kind |-> "scene", data |-> SceneData(s)]
           Tops == {[id |-> SeriesId, kind |-> "series", data |-> None],
                    [id |-> EpisodeId, kind |-> "episode", data |-> None]}
<1>1. CASE n \in Tops  BY <1>1 DEF NodesOf
<1>2. ASSUME NEW s \in ToSet(p.scenes), n = NodeOf(s)
      PROVE  n \in NodesOf(q)
  <2>1. PICK k \in D : s = SceneAt(r, K, k)  BY <1>2 DEF Revised, ToSet
  <2> DEFINE t == SceneAt(r, L, k)
  <2>2. t \in ToSet(q.scenes)  BY DEF Revised, ToSet
  <2>3. t.id = s.id /\ SceneData(t) = SceneData(s)  BY <2>1 DEF SceneAt, SceneData
  <2> HIDE DEF t, q
  <2>4. n = NodeOf(t)  BY <1>2, <2>3
  <2> QED  BY <2>2, <2>4 DEF NodesOf
<1>3. ASSUME NEW h \in Shots(p), n = [id |-> h.id, kind |-> "shot", data |-> h]
      PROVE  n.kind = "shot" /\ \E m \in NodesOf(q) : m.id = n.id
  <2>1. PICK k \in D : \E i \in DOMAIN Events(r, k) : h = ShotAt(r, K, k, i)  BY ShotsAre
  <2>2. PICK i \in DOMAIN Events(r, k) : h = ShotAt(r, K, k, i)  BY <2>1
  <2> DEFINE g == ShotAt(r, L, k, i)
             m == [id |-> g.id, kind |-> "shot", data |-> g]
  <2>3. g \in Shots(q)  BY ShotsAre
  <2>4. g.id = h.id  BY <2>2 DEF ShotAt
  <2> HIDE DEF g, q
  <2>5. m \in NodesOf(q)  BY <2>3 DEF NodesOf
  <2>6. m.id = n.id /\ n.kind = "shot"  BY <1>3, <2>4
  <2> QED  BY <2>5, <2>6
<1>4. \/ n \in Tops
      \/ \E s \in ToSet(p.scenes) : n = NodeOf(s)
      \/ \E h \in Shots(p) : n = [id |-> h.id, kind |-> "shot", data |-> h]
  BY DEF NodesOf
<1> QED  BY <1>1, <1>2, <1>3, <1>4

\* A change of shots rewrites neither the series nor the episode nor a scene: between two
\* graphs of one reading no node comes or goes, and only nodes of shots differ.
THEOREM ChangesAreSurgical == PlanningSpec => SurgicalChange
<1>1. ASSUME PlanningInv, [PlanningNext]_vars, graph # NoGraph, graph'.of = graph.of
      PROVE  /\ { n.id : n \in graph.nodes } = { n.id : n \in graph'.nodes }
             /\ \A n \in graph.nodes \ graph'.nodes : n.kind = "shot"
  <2>1. PICK K : graph.nodes = NodesOf(Revised(graph.of, K))
    BY <1>1 DEF PlanningInv, GraphInv
  <2>2. \E L : graph'.nodes = NodesOf(Revised(graph.of, L))
    <3>1. CASE Materialise
      <4>1. plan # NoPlan /\ graph'.of = canon /\ graph'.nodes = NodesOf(plan)
        BY <3>1 DEF Materialise
      <4>2. PICK L : plan = Revised(canon, L)  BY <1>1, <4>1 DEF PlanningInv, PlanInv
      <4> QED  BY <1>1, <4>1, <4>2
    <3>2. CASE graph' = graph  BY <2>1, <3>2
    <3> QED  BY <1>1, <3>1, <3>2
               DEF PlanningNext, vars, Edit, Revise, Interpret, Draft, Reorder, MakePackage
  <2>3. PICK L : graph'.nodes = NodesOf(Revised(graph.of, L))  BY <2>2
  <2>4. \A n \in graph.nodes : /\ \E m \in graph'.nodes : m.id = n.id
                               /\ n.kind = "shot" \/ n \in graph'.nodes
    BY <2>1, <2>3, NodesDiffer
  <2>5. \A n \in graph'.nodes : \E m \in graph.nodes : m.id = n.id
    BY <2>1, <2>3, NodesDiffer
  <2> QED  BY <2>4, <2>5
<1>2. PlanningInv /\ [PlanningNext]_vars =>
        [ (graph # NoGraph /\ graph'.of = graph.of) =>
            /\ { n.id : n \in graph.nodes } = { n.id : n \in graph'.nodes }
            /\ \A n \in graph.nodes \ graph'.nodes : n.kind = "shot" ]_vars
  BY <1>1
<1> QED  BY <1>2, PlanningInvariant, PTL DEF PlanningSpec, SurgicalChange

=============================================================================
