------------------------------ MODULE SwarmNode ------------------------------
(***************************************************************************)
(* The swarm node (nodes/mavlink-ai-swarm.js): it keeps a vehicle table    *)
(* and emits it when the membership or the staleness has changed, on an    *)
(* interval, and on demand.                                                *)
(***************************************************************************)
EXTENDS VehicleRegistry

VARIABLES fleet,        \* the registry
          emitOnChange, \* configuration
          attached,     \* subscribed to a connection
          lastSignature,
          announced,    \* the table emitted on the last change
          closed

vars == <<fleet, emitOnChange, attached, lastSignature, announced, closed>>

\* Fault: the signature leaves the stale flag out.
SignatureMembers(table) == [e \in Listed(table) |-> FALSE]

\* signature(): which vehicles exist and whether each is stale.
Signature(table) == [e \in Listed(table) |-> Stale(table, e)]

Snapshot(table) == [e \in Listed(table) |-> Stale(table, e)]

\* emitIfChanged, on the table as it is after expiry.
EmitIfChanged(table) ==
  /\ fleet' = Expired(table)
  /\ lastSignature' = Signature(table)
  /\ announced' = IF Signature(table) # lastSignature THEN Snapshot(table) ELSE announced

\* A message of the subscription; a discovery is reported at once.
Receive(e, message, place) ==
  /\ attached
  /\ LET table == Ingest(fleet, e, message, place)
     IN  IF Added(fleet, e, message)
         THEN IF emitOnChange THEN EmitIfChanged(table)
              ELSE fleet' = Expired(table) /\ UNCHANGED <<lastSignature, announced>>
         ELSE fleet' = table /\ UNCHANGED <<lastSignature, announced>>
  /\ UNCHANGED <<emitOnChange, attached, closed>>

TimePasses ==
  /\ ~closed
  /\ fleet' \in Older(fleet)
  /\ UNCHANGED <<emitOnChange, attached, lastSignature, announced, closed>>

\* The change ticker.
ChangeTick ==
  /\ ~closed /\ emitOnChange
  /\ EmitIfChanged(fleet)
  /\ UNCHANGED <<emitOnChange, attached, closed>>

\* The interval timer or an input: the answer leaves lastSignature alone.
EmitSnapshot ==
  /\ ~closed
  /\ fleet' = Expired(fleet)
  /\ UNCHANGED <<emitOnChange, attached, lastSignature, announced, closed>>

\* attach() on flows:started: the connection is there or not; the table stays,
\* and the badge takes a snapshot.
Attach(present) ==
  /\ ~closed /\ present # attached
  /\ attached' = present
  /\ fleet' = IF present THEN Expired(fleet) ELSE fleet
  /\ UNCHANGED <<emitOnChange, lastSignature, announced, closed>>

Close ==
  /\ ~closed
  /\ closed' = TRUE
  /\ attached' = FALSE
  /\ UNCHANGED <<fleet, emitOnChange, lastSignature, announced>>

-----------------------------------------------------------------------------
Start(onChange) ==
  /\ fleet = EmptyTable
  /\ emitOnChange = onChange
  /\ attached = TRUE
  /\ lastSignature = Signature(EmptyTable)
  /\ announced = Snapshot(EmptyTable)
  /\ closed = FALSE

Init == \E onChange \in BOOLEAN : Start(onChange)

Next ==
  \/ \E e \in Entries, message \in Messages, place \in Places : Receive(e, message, place)
  \/ TimePasses
  \/ ChangeTick
  \/ EmitSnapshot
  \/ \E present \in BOOLEAN : Attach(present)
  \/ Close

Spec == Init /\ [][Next]_vars

\* The change ticker runs as long as the node does.
Fairness == WF_vars(ChangeTick)

-----------------------------------------------------------------------------
(* Properties *)

\* What a vehicle is: listed and fresh, listed and stale, or not listed; a
\* vehicle that is silent for expireMs counts as not listed, removed or not.
Status(e) ==
  CASE ~fleet[e].known \/ fleet[e].gone -> "absent"
    [] OTHER -> fleet[e].beat

AnnouncedStatus(e) ==
  CASE e \notin DOMAIN announced -> "absent"
    [] OTHER -> IF announced[e] THEN "stale" ELSE "fresh"

\* A tick that emits nothing has nothing to tell: when the signature has not
\* changed, the table emitted last is the table as it is, whoever expired its
\* entries in between.
QuietIsUpToDate == Signature(fleet) = lastSignature => announced = Snapshot(fleet)

\* "Emits the vehicle table on membership/stale changes": when a vehicle keeps
\* its status, the table emitted last comes to show it and keeps showing it,
\* though expiry is lazy and nobody may ever ask for a snapshot.
TableConverges ==
  \A e \in Entries, status \in {"absent", "fresh", "stale"} :
    emitOnChange /\ <>[](Status(e) = status /\ ~closed) => <>[](AnnouncedStatus(e) = status)
=============================================================================
