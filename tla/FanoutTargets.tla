---------------------------- MODULE FanoutTargets ----------------------------
(***************************************************************************)
(* The commands a fan-out is expanded into (lib/swarm/fanout.js).  A list  *)
(* of targets is a sequence of system ids; a coordinate is where it comes  *)
(* from: the raw wire value, the resolved position, param5 to 7, the       *)
(* sentinel for "use current", or the default 0.                           *)
(***************************************************************************)
EXTENDS Naturals, Sequences

CONSTANTS Sysids,        \* the system ids of vehicles
          MaxTargets,    \* bound: the length of a target list
          Concurrencies  \* node.concurrency: workers a node is configured with

Broadcast == 0

ASSUME FanoutAssumption ==
  /\ Sysids \subseteq Nat \ {Broadcast}
  /\ MaxTargets \in Nat
  /\ Concurrencies \subseteq Nat \ {0}

TargetLists == UNION {[1..n -> Sysids \cup {Broadcast}] : n \in 0..MaxTargets}

\* Fault: a repeated system id is commanded twice.
WellFormedRepeats(list) == list # <<>> /\ \A i \in DOMAIN list : list[i] # Broadcast

\* buildFanout without broadcast: a vehicle list, every vehicle once.
WellFormed(list) ==
  /\ list # <<>>
  /\ \A i \in DOMAIN list : list[i] # Broadcast
  /\ \A i, j \in DOMAIN list : list[i] = list[j] => i = j

\* buildFanout in broadcast mode: one message to system 0, whatever the list.
Expand(broadcast, list) == IF broadcast THEN <<Broadcast>> ELSE list

-----------------------------------------------------------------------------
(* buildTargetMessage: what a target says of its position *)

Positions == {"none", "latlon", "offset", "alt", "latOnly", "noOrigin"}

\* raw: x and y are given; z: z is given; withAlt: a lat/lon target has an
\* altitude; params: param5 to 7 are given by the target or by the base.
Specs == [position : Positions, withAlt : BOOLEAN, raw : BOOLEAN, z : BOOLEAN, params : BOOLEAN]

Forms == {"int", "long"}

\* resolvePosition: one of lat/lon alone, and an offset without an origin.
Unresolvable(spec) == spec.position \in {"latOnly", "noOrigin"}

HasPlace(spec) == spec.position \in {"latlon", "offset"}

HasAlt(spec) ==
  \/ spec.position \in {"offset", "alt"}
  \/ spec.position = "latlon" /\ spec.withAlt

\* Fault: without coordinates the default is taken, a place off Africa.
ParamPlaceZero(spec) == IF spec.params THEN "params" ELSE "zero"

\* param5/6, or the sentinel of a target that only changes its altitude.
ParamPlace(spec) ==
  IF spec.params THEN "params"
  ELSE IF spec.position = "alt" THEN "current" ELSE "zero"

IntPlace(spec) ==
  IF spec.raw THEN "raw"
  ELSE IF HasPlace(spec) THEN "position" ELSE ParamPlace(spec)

Param7(spec) == IF spec.params THEN "params" ELSE "zero"

IntAlt(spec) ==
  IF spec.z THEN "raw" ELSE IF HasAlt(spec) THEN "position" ELSE Param7(spec)

\* COMMAND_LONG has no raw coordinates.
LongPlace(spec) ==
  CASE HasPlace(spec)                             -> "position"
    [] spec.position = "alt" /\ ~spec.params      -> "current"
    [] ~HasPlace(spec) /\ spec.params             -> "params"
    [] spec.position = "none" /\ ~spec.params     -> "zero"

LongAlt(spec) == IF HasAlt(spec) THEN "position" ELSE Param7(spec)

Message(form, spec) ==
  IF form = "int" THEN [place |-> IntPlace(spec), alt |-> IntAlt(spec)]
                  ELSE [place |-> LongPlace(spec), alt |-> LongAlt(spec)]
=============================================================================
