--------------------------- MODULE StoryPlanning ---------------------------
(***************************************************************************)
(* From a story to the plan of an episode, its storyboard, its shot        *)
(* packages and its production graph (src/studio/story_system.py,          *)
(* director.py, scene_storyboard.py, production_graph.py).                 *)
(*                                                                         *)
(* The creator edits the text and the story bible at any time, the         *)
(* language model returns whatever interpretation it likes, and packages   *)
(* and graphs made from one state of the plan are kept while the plan is   *)
(* drafted again or its shots are renumbered.  A call that raises changes  *)
(* nothing and is not a step.  A digest stands for what it was taken of.   *)
(***************************************************************************)
EXTENDS Integers, Sequences, FiniteSets, SequencesExt, Functions, Unset

CONSTANTS
  Texts,            \* the versions of the story's text
  BibleData,        \* what the creator submits as a story bible
  Readings,         \* the interpretations the language model returns
  Decisions,        \* what the caller puts into a package: [events, dialogue]
  SeriesId,         \* the id of the series
  EpisodeId,        \* the id of the episode, made of the story's id
  Absent,           \* a field that is not there
  MaxPackages       \* a bound on the packages kept

VARIABLES
  text,             \* the story's text
  bible,            \* the story bible in use
  reading,          \* the interpretation at hand and the text it was made of
  canon,            \* the reading the plan was drafted from
  drafted,          \* the text the plan was drafted of
  plan,             \* the episode plan: its scenes and review items
  packages,         \* the shot packages made so far
  graph             \* the last production graph: its nodes, and its canon

vars == <<text, bible, reading, canon, drafted, plan, packages, graph>>

(* The language model's answer is parsed: its events are a list.           *)
ASSUME ReadingAssumption == \A r \in Readings : r.events \in Seq(ToSet(r.events))

(* The numbers in T, from the least on.                                    *)
Listing(T) ==
  CHOOSE f \in [1..Cardinality(T) -> T] :
    \A i, j \in DOMAIN f : i < j => f[i] < f[j]

-----------------------------------------------------------------------------
(* The story bible.                                                        *)

Severity == {"canonical", "high", "medium", "low"}

ValidBible(b) ==
  /\ IsInjective(b.characters)
  /\ IsInjective(b.locations)
  /\ IsInjective([i \in DOMAIN b.rules |-> b.rules[i].id])
  /\ \A i \in DOMAIN b.rules : b.rules[i].severity \in Severity

(* Every character and place is canon; no place is also right.             *)
Refers(b, cast, place) ==
  /\ cast \subseteq ToSet(b.characters)
  /\ place \in ToSet(b.locations) \cup {None}

-----------------------------------------------------------------------------
(* validate_interpretation.  What it asks of an item's wording is left out.*)

IdsOf(events) == { e.id : e \in ToSet(events) }

Chronological(events) ==
  /\ \A i \in DOMAIN events : events[i].order \in Nat \ {0}
  /\ \A i, j \in DOMAIN events : i < j => events[i].order < events[j].order

ValidReading(b, t, r) ==
  /\ r.source = t
  /\ IsInjective([i \in DOMAIN r.events |-> r.events[i].id])
  /\ \A d, e \in r.dialogue : d.id = e.id => d = e
  /\ \A i \in DOMAIN r.events : Refers(b, r.events[i].cast, r.events[i].place)
  /\ Chronological(r.events)
  /\ \A d \in r.dialogue : d.event \in IdsOf(r.events) \cup {None, Absent}

-----------------------------------------------------------------------------
(* build_episode_plan.                                                     *)

ShotId(scene, order) == <<scene, order>>

SceneIds(r) == { e.scene : e \in ToSet(r.events) }

(* The events and the scenes of a chronological reading come in its order: *)
(* a scene at the place of its first event.                                *)
PlacesOf(r, s) == { i \in DOMAIN r.events : r.events[i].scene = s }

FirstPlaces(r) ==
  { i \in DOMAIN r.events : \A j \in PlacesOf(r, r.events[i].scene) : i <= j }

EventsAt(r, places) == [k \in DOMAIN places |-> r.events[places[k]]]

EventsOf(r, s) == EventsAt(r, Listing(PlacesOf(r, s)))

ScenesInOrder(r) ==
  LET firsts == EventsAt(r, Listing(FirstPlaces(r)))
  IN  [k \in DOMAIN firsts |-> firsts[k].scene]

Spoken(r, s) == { d \in r.dialogue : d.scene = s }

(* The dialogue bound to an event, by the event's id or by its shot's.     *)
BoundTo(r, e) ==
  { d \in Spoken(r, e.scene) : \/ d.event = e.id
                               \/ d.shot = ShotId(e.scene, e.order) }

SceneLevel(r, s) ==
  { d \in Spoken(r, s) : d.event = Absent /\ d.shot = Absent }

Unassigned(r, s) ==
  { d \in Spoken(r, s) \ SceneLevel(r, s) :
      \A e \in ToSet(r.events) : d \notin BoundTo(r, e) }

(* Scene-level dialogue is anchored on the scene's first shot.             *)
ShotOf(r, e, first) ==
  [id |-> ShotId(e.scene, e.order), scene |-> e.scene, order |-> e.order,
   cast |-> e.cast, place |-> e.place, events |-> {e.id},
   dialogue |-> { d.id : d \in BoundTo(r, e) \cup
                               (IF first THEN SceneLevel(r, e.scene) ELSE {}) }]

SceneOf(r, k) ==
  LET s == ScenesInOrder(r)[k]
      events == EventsOf(r, s)
  IN  [id |-> s, order |-> k, described |-> events[1].described,
       place |-> events[1].place,
       cast |-> UNION { e.cast : e \in ToSet(events) },
       events |-> events,
       shots |-> [i \in DOMAIN events |-> ShotOf(r, events[i], i = 1)]]

ReviewOf(r, s) ==
  { [scene |-> s, anchored |-> TRUE, ids |-> { d.id : d \in SceneLevel(r, s) }],
    [scene |-> s, anchored |-> FALSE, ids |-> { d.id : d \in Unassigned(r, s) }] }

PlanOf(r) ==
  [scenes |-> [k \in DOMAIN ScenesInOrder(r) |-> SceneOf(r, k)],
   review |-> { v \in UNION { ReviewOf(r, s) : s \in SceneIds(r) } : v.ids # {} }]

NoPlan == [scenes |-> << >>, review |-> {}]

Shots(p) == UNION { ToSet(s.shots) : s \in ToSet(p.scenes) }

(* validate_episode_plan_fidelity, without approved extra events: nothing  *)
(* required is missing from the shots, and nothing else is in them.        *)
Faithful(p) ==
  UNION { h.events : h \in Shots(p) }
    = UNION { { e.id : e \in { f \in ToSet(s.events) : f.required } } : s \in ToSet(p.scenes) }

-----------------------------------------------------------------------------
(* reorder_shots.  order is a sequence of positions in the scene's shots.  *)

(* A shot depicts one event.                                               *)
DepictedBy(shots) == [i \in DOMAIN shots |-> shots[i].events]

(* A fault: any order of the shots is taken.                               *)
MayPermute(shots, order) == order \in Bijection(DOMAIN shots, DOMAIN shots)

MayReorder(shots, order) ==
  /\ order \in Bijection(DOMAIN shots, DOMAIN shots)
  /\ DepictedBy([i \in DOMAIN shots |-> shots[order[i]]]) = DepictedBy(shots)

Renumbered(shots, order) ==
  [i \in DOMAIN shots |-> [shots[order[i]] EXCEPT !.order = i]]

-----------------------------------------------------------------------------
(* validate_shot_package.  What it asks of the package alone is left out.  *)

(* A fault: the package's order is not compared.                           *)
IsShotById(h, g) == h.id = g.id

IsShot(h, g) == h.id = g.id /\ h.order = g.order

Accepts(b, p, g) ==
  \E k \in DOMAIN p.scenes :
    LET s == p.scenes[k] IN
    /\ s.id = g.scene
    /\ \E h \in ToSet(s.shots) : IsShot(h, g)
    /\ g.events \subseteq IdsOf(s.events)
    /\ g.dialogue \subseteq UNION { h.dialogue : h \in Shots(p) }
    /\ Refers(b, g.cast, g.place)

PackageOf(h, decision) ==
  [id |-> h.id, scene |-> h.scene, order |-> h.order, cast |-> h.cast,
   place |-> h.place, events |-> decision.events, dialogue |-> decision.dialogue]

-----------------------------------------------------------------------------
(* build_episode_production_state: a node of the graph holds its own data, *)
(* a parent nothing of its children.                                       *)

(* A fault: the scene's node holds its shots.                              *)
SceneDataOfAll(s) ==
  [order |-> s.order, described |-> s.described, place |-> s.place,
   cast |-> s.cast, events |-> s.events, shots |-> s.shots]

SceneData(s) ==
  [order |-> s.order, described |-> s.described, place |-> s.place,
   cast |-> s.cast, events |-> s.events]

NodesOf(p) ==
  {[id |-> SeriesId, kind |-> "series", data |-> None],
   [id |-> EpisodeId, kind |-> "episode", data |-> None]}
    \cup { [id |-> s.id, kind |-> "scene", data |-> SceneData(s)] : s \in ToSet(p.scenes) }
    \cup { [id |-> h.id, kind |-> "shot", data |-> h] : h \in Shots(p) }

NoGraph == [of |-> None, nodes |-> {}]

-----------------------------------------------------------------------------
PlanningInit ==
  /\ text \in Texts
  /\ bible \in { b \in BibleData : ValidBible(b) }
  /\ reading = None /\ canon = None /\ drafted = None
  /\ plan = NoPlan
  /\ packages = {}
  /\ graph = NoGraph

(* The creator.                                                            *)
Edit(t) ==
  /\ text' = t
  /\ UNCHANGED <<bible, reading, canon, drafted, plan, packages, graph>>

Revise(b) ==
  /\ ValidBible(b)
  /\ bible' = b
  /\ UNCHANGED <<text, reading, canon, drafted, plan, packages, graph>>

(* interpret_story: the digest is of the text the call was given.          *)
Interpret(r) ==
  /\ reading' = [source |-> text, events |-> r.events, dialogue |-> r.dialogue]
  /\ UNCHANGED <<text, bible, canon, drafted, plan, packages, graph>>

(* build_episode_draft.                                                    *)
Draft ==
  /\ reading # None
  /\ ValidReading(bible, text, reading)
  /\ Faithful(PlanOf(reading))
  /\ plan' = PlanOf(reading)
  /\ canon' = reading
  /\ drafted' = text
  /\ UNCHANGED <<text, bible, reading, packages, graph>>

Reorder(k, order) ==
  /\ MayReorder(plan.scenes[k].shots, order)
  /\ plan' = [plan EXCEPT !.scenes[k].shots = Renumbered(@, order)]
  /\ UNCHANGED <<text, bible, reading, canon, drafted, packages, graph>>

(* make_shot_package.                                                      *)
MakePackage(h, decision) ==
  /\ Cardinality(packages) < MaxPackages
  /\ Accepts(bible, plan, PackageOf(h, decision))
  /\ packages' = packages \cup {PackageOf(h, decision)}
  /\ UNCHANGED <<text, bible, reading, canon, drafted, plan, graph>>

(* Ids taken twice raise: a scene may be named as the series, or as a shot.*)
Materialise ==
  /\ plan # NoPlan
  /\ \A m, n \in NodesOf(plan) : m.id = n.id => m = n
  /\ graph' = [of |-> canon, nodes |-> NodesOf(plan)]
  /\ UNCHANGED <<text, bible, reading, canon, drafted, plan, packages>>

PlanningNext ==
  \/ \E t \in Texts : Edit(t)
  \/ \E b \in BibleData : Revise(b)
  \/ \E r \in Readings : Interpret(r)
  \/ Draft
  \/ \E k \in DOMAIN plan.scenes :
       \E order \in [DOMAIN plan.scenes[k].shots -> DOMAIN plan.scenes[k].shots] :
         Reorder(k, order)
  \/ \E h \in Shots(plan), decision \in Decisions : MakePackage(h, decision)
  \/ Materialise

PlanningSpec == PlanningInit /\ [][PlanningNext]_vars

-----------------------------------------------------------------------------
(* Properties.                                                             *)

Before(h, g) == h.scene = g.scene /\ h.order < g.order

(* Whatever the creator edits, drafts and drags afterwards, a plan tells   *)
(* the events of the reading it was drafted from, which was made of the    *)
(* text then: each on one shot, in its own scene, and within a scene in    *)
(* the story's order (reorder_shots, "without allowing a drag to rewrite   *)
(* story chronology").                                                     *)
ChronologyKept ==
  plan # NoPlan =>
    /\ canon.source = drafted
    /\ \A e \in ToSet(canon.events) :
         \E h \in Shots(plan) :
           /\ h.scene = e.scene
           /\ { g \in Shots(plan) : e.id \in g.events } = {h}
    /\ \A h, g \in Shots(plan) :
         Before(h, g) => \A d, e \in ToSet(canon.events) :
           (d.id \in h.events /\ e.id \in g.events) => d.order < e.order

(* Of the packages made at different times, those that validate against    *)
(* the plan as it is now never put two shots of a scene on one place, and  *)
(* follow the story's order: a package from before a renumbering is        *)
(* refused, not mixed with newer ones (validate_shot_package).             *)
AcceptedInOrder ==
  \A g, h \in { q \in packages : Accepts(bible, plan, q) } :
    (g.scene = h.scene /\ g.id # h.id) =>
      (g.order < h.order <=> g.id[2] < h.id[2]) /\ g.order # h.order

(* Between two graphs of one reading only nodes of shots differ, and none  *)
(* comes or goes: a change of shots does not rewrite the episode or scene  *)
(* and with it unrelated work (production_graph.py:3-7).                   *)
SurgicalChange ==
  [][ (graph # NoGraph /\ graph'.of = graph.of) =>
        /\ { n.id : n \in graph.nodes } = { n.id : n \in graph'.nodes }
        /\ \A n \in graph.nodes \ graph'.nodes : n.kind = "shot" ]_vars

-----------------------------------------------------------------------------
(* What the documentation says and the code does not keep.                 *)

(* "The director never silently creates, removes, reorders, or changes     *)
(* canon" (director.py:13): each line of dialogue is on a shot of the plan *)
(* or up for review, and the plan tells the events in the story's order    *)
(* from scene to scene too.  The code looks at the lines of each scene     *)
(* that some event names and at no others, and it puts all events of a     *)
(* scene where its first one is.                                           *)
DialogueAccounted ==
  \A d \in canon.dialogue : \/ \E h \in Shots(plan) : d.id \in h.dialogue
                           \/ \E v \in plan.review : d.id \in v.ids
StoryOrderKept ==
  \A k, l \in DOMAIN plan.scenes : k < l =>
    \A g \in ToSet(plan.scenes[k].shots), h \in ToSet(plan.scenes[l].shots) :
      \A d, e \in ToSet(canon.events) :
        d.id \in g.events /\ e.id \in h.events => d.order < e.order
NeverSilent == plan # NoPlan => DialogueAccounted /\ StoryOrderKept
=============================================================================
