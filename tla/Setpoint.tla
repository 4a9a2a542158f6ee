------------------------------ MODULE Setpoint ------------------------------
(***************************************************************************)
(* The setpoint of a move node (lib/move/setpoint.js).  The type mask is   *)
(* the set of its bits: a set bit tells the vehicle to ignore a dimension, *)
(* except bit 9, which turns the acceleration into a force.  The request   *)
(* is the set of fields that hold a finite value.                          *)
(***************************************************************************)
EXTENDS Naturals

Position == 0..2
Velocity == 3..5
Accel == 6..8
Force == 9
Yaw == 10
YawRate == 11

Ignorable == Position \cup Velocity \cup Accel \cup {Yaw, YawRate}

\* The axes each preset drives; a force drives the acceleration axes.
Presets ==
  [position |-> Position, position_yaw |-> Position \cup {Yaw},
   velocity |-> Velocity, velocity_yaw_rate |-> Velocity \cup {YawRate},
   position_velocity |-> Position \cup Velocity,
   acceleration |-> Accel, acceleration_yaw |-> Accel \cup {Yaw},
   force |-> Accel \cup {Force}, force_yaw |-> Accel \cup {Force, Yaw},
   yaw |-> {Yaw}, yaw_rate |-> {YawRate}]

\* buildTypeMask: everything driven is cleared from "ignore everything".
BuildTypeMask(driven) == (Ignorable \ driven) \cup (driven \cap {Force})

\* The field that drives an axis; lat and lon drive the horizontal axes of the
\* global frame.
AxisFields ==
  <<"north", "east", "altitude", "velNorth", "velEast", "climb",
    "accelNorth", "accelEast", "accelUp", "none", "yaw", "yawRate">>

FieldOf(coordinate, axis) ==
  IF coordinate = "global" /\ axis \in {0, 1} THEN <<"lat", "lon">>[axis + 1] ELSE AxisFields[axis + 1]

Fields == {FieldOf(c, a) : c \in {"local", "global"}, a \in Ignorable}

VARIABLES coordinate, mask, given, \* the request
          message,                 \* the sign and the field of each axis, or None
          refused

vars == <<coordinate, mask, given, message, refused>>

-----------------------------------------------------------------------------
\* Fault: the altitude has no guard of its own in the global frame.
CheckedHorizontal == IF coordinate = "global" THEN Ignorable \ Position ELSE Ignorable

\* assertActiveFieldsFinite: lat and lon have a guard of their own.
Checked == IF coordinate = "global" THEN Ignorable \ {0, 1} ELSE Ignorable

BadField == \E axis \in Checked \ mask : FieldOf(coordinate, axis) \notin given

\* Both coordinates are needed as soon as one of them is driven.
BadPosition ==
  /\ coordinate = "global"
  /\ ~({0, 1} \subseteq mask)
  /\ ~({"lat", "lon"} \subseteq given)

\* num(): a blank field becomes 0.
Num(field) == IF field \in given THEN field ELSE "zero"

\* The vertical axes point down, except the altitude of the global frame.
Sign(axis) == IF axis \in {5, 8} \/ (axis = 2 /\ coordinate = "local") THEN "negated" ELSE "same"

Wire == [axis \in Ignorable |-> [sign |-> Sign(axis), field |-> Num(FieldOf(coordinate, axis))]]

None == [axis \in {} |-> {}]

\* buildSetpoint: the request is refused, or each axis gets its value.
Build ==
  /\ message = None /\ ~BadField /\ ~BadPosition
  /\ message' = Wire
  /\ UNCHANGED <<coordinate, mask, given, refused>>

Refuse ==
  /\ ~refused /\ (BadField \/ BadPosition)
  /\ refused' = TRUE
  /\ UNCHANGED <<coordinate, mask, given, message>>

-----------------------------------------------------------------------------
\* TLC's requests: every mask of a preset, and custom masks that drive one axis
\* or all of them; every field given but one, all of them, or none.
Masks == {BuildTypeMask(Presets[p]) : p \in DOMAIN Presets}
           \cup {Ignorable \ {axis} : axis \in Ignorable} \cup {{}, {0}, {1}, {Force}}

Requests == {Fields \ {f} : f \in Fields} \cup {Fields, {}}

Start(c, m, g) == coordinate = c /\ mask = m /\ given = g /\ message = None /\ refused = FALSE

Init == \E c \in {"local", "global"}, m \in Masks, g \in Requests : Start(c, m, g)

Next == Build \/ Refuse

Spec == Init /\ [][Next]_vars

\* "A blank active field [becomes] a real command the operator never entered"
\* (assertActiveFieldsFinite): an axis the vehicle is told to follow carries the
\* value of its field, in both frames and for every mask; and what points up
\* for the operator points down on the wire, but for the global altitude.
NothingInvented ==
  message # None =>
    \A axis \in Ignorable \ mask :
      /\ message[axis].field \in given
      /\ message[axis].sign = "negated" <=>
           message[axis].field \in {"climb", "accelUp"}
             \/ (message[axis].field = "altitude" /\ coordinate = "local")
=============================================================================
