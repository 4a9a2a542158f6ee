--------------------------- MODULE FormationSlots ---------------------------
(***************************************************************************)
(* The places of a formation (lib/swarm/formation.js): the slots of the    *)
(* vehicles and the points of the slots in the body frame.  A point is     *)
(* <<forward, right>> in half spacings; on the ring of a circle it is      *)
(* <<1, n>> for the n-th of the evenly spaced angles.                      *)
(***************************************************************************)
EXTENDS Integers, FiniteSets

CONSTANTS Vehicles, \* the system ids a list may hold
          MaxPin    \* largest slot an explicit map pins

Shapes == {"line", "column", "wedge", "circle", "grid"}

VARIABLES shape, ids, pins, startSlot, \* the input; pins is a partial slot map
          answer,                      \* "none", "targets" or "BAD_SLOT"
          points                       \* the targets: vehicle -> point

vars == <<shape, ids, pins, startSlot, answer, points>>

-----------------------------------------------------------------------------
Pinned == {pins[v] : v \in ids \cap DOMAIN pins}

\* Two vehicles of the list pinned to one slot.
Collides == Cardinality(Pinned) < Cardinality(ids \cap DOMAIN pins)

\* Fault: the slots of pinned vehicles are not marked used.
FreeAny(i) == i >= startSlot

Free(i) == i >= startSlot /\ i \notin Pinned

\* assignSlots: the pinned slot, else the free slots in the order of sysids.
Slot(v) ==
  IF v \in DOMAIN pins THEN pins[v]
  ELSE LET rank == Cardinality({x \in ids \ DOMAIN pins : x < v})
       IN  CHOOSE i \in 0..(MaxPin + Cardinality(Vehicles) + 1) :
             Free(i) /\ Cardinality({j \in 0..(i - 1) : Free(j)}) = rank

Slots == {Slot(v) : v \in ids}
Count == 1 + (CHOOSE m \in Slots : \A x \in Slots : x <= m)

Rank(i) == (i + 1) \div 2
Side(i) == IF i % 2 = 1 THEN 1 ELSE -1

\* Columns of the block behind the reference: the square root, rounded up.
Columns == CHOOSE c \in 1..(Count + 1) : c * c >= Count - 1 /\ (c = 1 \/ (c - 1) * (c - 1) < Count - 1)

\* slotOffsets; the reference vehicle is at the center.
Offset(i) ==
  IF i = 0 THEN <<0, 0>>
  ELSE [line   |-> <<0, 2 * Side(i) * Rank(i)>>,
        column |-> <<-2 * i, 0>>,
        wedge  |-> <<-2 * Rank(i), 2 * Side(i) * Rank(i)>>,
        circle |-> <<1, i - 1>>,
        grid   |-> <<-2 * (((i - 1) \div Columns) + 1), 2 * ((i - 1) % Columns) - (Columns - 1)>>][shape]

\* formationTargets
FormationTargets ==
  /\ answer = "none"
  /\ IF Collides THEN answer' = "BAD_SLOT" /\ UNCHANGED points
     ELSE answer' = "targets" /\ points' = [v \in ids |-> Offset(Slot(v))]
  /\ UNCHANGED <<shape, ids, pins, startSlot>>

-----------------------------------------------------------------------------
PartialMaps == UNION {[S -> 0..MaxPin] : S \in SUBSET Vehicles}

\* The slots of a leader's followers start at 1 and are not pinned.
Start(s, list, map, first) ==
  /\ shape = s /\ ids = list /\ pins = map /\ startSlot = first
  /\ answer = "none" /\ points = [v \in {} |-> <<0, 0>>]

Init ==
  \E s \in Shapes, list \in SUBSET Vehicles \ {{}} :
    \/ \E map \in PartialMaps : Start(s, list, map, 0)
    \/ Start(s, list, [v \in {} |-> 0], 1)

Next == FormationTargets

Spec == Init /\ [][Next]_vars

-----------------------------------------------------------------------------
(* Properties *)

\* No two vehicles are sent to one point, and no follower to the leader's,
\* whatever is pinned and whichever shape the slots are laid out in: a shared
\* point is a collision.
EachAlone ==
  answer = "targets" =>
    /\ \A v, w \in ids : v # w => points[v] # points[w]
    /\ startSlot = 1 => \A v \in ids : points[v] # <<0, 0>>
=============================================================================
