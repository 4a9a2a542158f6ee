---------------------------- MODULE FanoutMessage ----------------------------
(* The two forms of the command for one target (buildTargetMessage).        *)
EXTENDS FanoutTargets

VARIABLES spec,  \* what the target says of its position
          built  \* the message of each form

vars == <<spec, built>>

NotBuilt == [place |-> "none", alt |-> "none"]
Rejected == [place |-> "rejected", alt |-> "rejected"]

Build(form) ==
  /\ built[form] = NotBuilt
  /\ built' = [built EXCEPT ![form] = IF Unresolvable(spec) THEN Rejected ELSE Message(form, spec)]
  /\ UNCHANGED spec

Start(s) == spec = s /\ built = [form \in Forms |-> NotBuilt]

Init == \E s \in Specs : Start(s)

Next == \E form \in Forms : Build(form)

Spec == Init /\ [][Next]_vars

-----------------------------------------------------------------------------
\* COMMAND_INT and COMMAND_LONG send a vehicle to the same place and altitude,
\* when no raw wire value is given; and a target that only changes its altitude
\* keeps the position of the vehicle ("0 would be a real coordinate").
SamePlace ==
  /\ (\A form \in Forms : built[form] # NotBuilt) /\ ~spec.raw /\ ~spec.z
       => built["int"] = built["long"]
  /\ \A form \in Forms : spec.position = "alt" /\ ~spec.params /\ ~spec.raw
       => built[form].place \in {"none", "current"}
=============================================================================
