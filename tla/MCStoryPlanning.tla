-------------------------- MODULE MCStoryPlanning --------------------------
(* A small story for TLC: two texts, two bibles, readings that are sound   *)
(* and readings a language model may also return.                          *)
EXTENDS StoryPlanning

CONSTANTS s1, s2, e1, e2, e3, d1, d2, hero, guest, cave

MCBibles ==
  LET rule == [id |-> "r1", severity |-> "high"]
  IN  { [characters |-> <<hero, guest>>, locations |-> <<cave>>, rules |-> <<rule>>],
        [characters |-> <<hero>>, locations |-> <<cave>>, rules |-> << >>],
        [characters |-> <<hero, hero>>, locations |-> <<cave>>, rules |-> << >>] }

Event(id, scene, order, cast) ==
  [id |-> id, scene |-> scene, order |-> order, cast |-> cast, place |-> cave,
   required |-> TRUE, described |-> TRUE]

Line(id, scene, event, shot) ==
  [id |-> id, scene |-> scene, event |-> event, shot |-> shot]

(* Two scenes, the second with a gap in its numbers.                       *)
Plain == <<Event(e1, s1, 1, {hero}), Event(e2, s2, 2, {hero}), Event(e3, s2, 4, {guest})>>
(* The first scene goes on after the second has begun.                     *)
Cut == <<Event(e1, s1, 1, {hero}), Event(e2, s2, 2, {hero}), Event(e3, s1, 3, {hero})>>

MCReadings ==
  { [events |-> Plain, dialogue |-> {Line(d1, s2, e3, Absent), Line(d2, s2, Absent, Absent)}],
    [events |-> Cut, dialogue |-> {Line(d1, s1, None, Absent), Line(d2, s1, Absent, <<s1, 3>>)}],
    (* A scene called as a shot is, without a description; a line bound to  *)
    (* two shots, and one bound to the event of another scene.              *)
    [events |-> <<Event(e1, s1, 1, {hero}), Event(e2, s1, 2, {hero}),
                  [Event(e3, <<s1, 1>>, 3, {hero}) EXCEPT !.described = FALSE]>>,
     dialogue |-> {Line(d1, s1, e1, <<s1, 2>>), Line(d2, s1, e3, Absent)}],
    (* Out of order.                                                        *)
    [events |-> <<Event(e2, s1, 2, {hero}), Event(e1, s1, 1, {hero})>>, dialogue |-> {}] }

(* Of the second kind, and with a line that names no scene but its event.   *)
MCCutReadings == { [events |-> Cut, dialogue |-> {Line(d1, Absent, e3, Absent)}] }

MCDecisions ==
  { [events |-> {e1}, dialogue |-> {}], [events |-> {e2, e3}, dialogue |-> {d1}] }
=============================================================================
