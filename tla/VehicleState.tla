----------------------------- MODULE VehicleState ----------------------------
(***************************************************************************)
(* The vehicle state node (nodes/mavlink-ai-vehicle-state.js) and its      *)
(* engine (lib/state/vehicle-state.js), for one vehicle: the record the    *)
(* messages build, the snapshots of it, and the transitions sent when a    *)
(* snapshot differs from the one before.  One other component stands for   *)
(* all that are not the autopilot; one mode number, one home and one       *)
(* sensor's health stand for the sections a transition is told about.      *)
(***************************************************************************)
EXTENDS Naturals, FiniteSets

CONSTANTS Modes,      \* flight modes
          MaxRebuilds \* bound on the rebuilds of the engine

Ages == {"none", "fresh", "stale"}

VARIABLES attached,  \* subscribed, with an engine
          record,    \* the engine's record; known is FALSE before there is one
          baseline,  \* lastSnapshots, of this vehicle
          told,      \* history: what the transitions since the rebuild add up to
          rebuilds, closed

vars == <<attached, record, baseline, told, rebuilds, closed>>

NoRecord == [known |-> FALSE, autopilot |-> "none", armed |-> FALSE, mode |-> 0,
             component |-> "none", health |-> "unseen"]

-----------------------------------------------------------------------------
\* _snapshot: an autopilot heard within staleMs is a connected vehicle.
Snapshot(r) ==
  [known |-> r.known,
   connected |-> r.autopilot = "fresh",
   armed |-> IF r.autopilot = "none" THEN "unknown" ELSE IF r.armed THEN "yes" ELSE "no",
   mode |-> IF r.autopilot = "none" THEN 0 ELSE r.mode,
   component |-> r.component = "fresh",
   health |-> r.health]

NoSnapshot == Snapshot(NoRecord)

\* diffVehicleState: the first sight tells the connection alone; then every
\* section that differs, but not a sensor that is healthy when first seen.
Events(prev, next) ==
  LET tells ==
        [connected |-> next.connected # prev.connected,
         armed |-> prev.known /\ next.armed # prev.armed /\ next.armed # "unknown",
         mode |-> prev.known /\ next.mode # prev.mode /\ next.mode # 0,
         component |-> prev.known /\ next.component # prev.component,
         health |-> prev.known /\ next.health # prev.health
                      /\ ~(prev.health = "unseen" /\ next.health = "healthy")]
  IN  {f \in DOMAIN tells : tells[f]}

\* What a consumer of the transitions knows after them.
Folded(knows, next, events) ==
  [connected |-> IF "connected" \in events THEN next.connected ELSE knows.connected,
   armed |-> IF "armed" \in events THEN next.armed ELSE knows.armed,
   mode |-> IF "mode" \in events THEN next.mode ELSE knows.mode,
   component |-> IF "component" \in events THEN next.component ELSE knows.component,
   health |-> IF "health" \in events THEN next.health ELSE knows.health]

NothingTold == [connected |-> FALSE, armed |-> "unknown", mode |-> 0, component |-> FALSE, health |-> "unseen"]

\* emitTransitions, of the record as it is then.
EmitTransitions(r) ==
  /\ baseline' = IF r.known THEN Snapshot(r) ELSE baseline
  /\ told' = IF r.known THEN Folded(told, Snapshot(r), Events(baseline, Snapshot(r))) ELSE told

-----------------------------------------------------------------------------
\* ingest: a message of the autopilot or of the other component.
Heartbeat(armed, mode) ==
  [record EXCEPT !.known = TRUE, !.autopilot = "fresh", !.armed = armed, !.mode = mode]
ComponentHeartbeat == [record EXCEPT !.known = TRUE, !.component = "fresh"]
StatusText == [record EXCEPT !.known = TRUE]
SysStatus(healthy) ==
  [record EXCEPT !.known = TRUE, !.health = IF healthy THEN "healthy" ELSE "unhealthy"]

Ingest ==
  \/ \E armed \in BOOLEAN, mode \in Modes : record' = Heartbeat(armed, mode)
  \/ record' \in {ComponentHeartbeat, StatusText, SysStatus(TRUE), SysStatus(FALSE)}

Receive ==
  /\ attached
  /\ Ingest
  /\ EmitTransitions(record')
  /\ UNCHANGED <<attached, rebuilds, closed>>

\* staleMs pass without a heartbeat of the one or the other.
Silence ==
  /\ ~closed
  /\ \/ record.autopilot = "fresh" /\ record' = [record EXCEPT !.autopilot = "stale"]
     \/ record.component = "fresh" /\ record' = [record EXCEPT !.component = "stale"]
  /\ UNCHANGED <<attached, baseline, told, rebuilds, closed>>

\* reEmitAll, on the change ticker.
ReEmitAll ==
  /\ ~closed
  /\ EmitTransitions(record)
  /\ UNCHANGED <<attached, record, rebuilds, closed>>

\* Fault: a snapshot on demand becomes the baseline of the transitions.
EmitSnapshotAsBaseline ==
  /\ ~closed /\ record.known
  /\ baseline' = Snapshot(record)
  /\ UNCHANGED <<attached, record, told, rebuilds, closed>>

\* The interval timer or the snapshot command: answers, and touches nothing.
EmitSnapshot == ~closed /\ record.known /\ UNCHANGED vars

\* attach() on flows:started: another connection or profile starts a new engine
\* and a new baseline; none drops both.
Attach(present) ==
  /\ ~closed /\ rebuilds < MaxRebuilds
  /\ attached' = present
  /\ record' = NoRecord /\ baseline' = NoSnapshot /\ told' = NothingTold
  /\ rebuilds' = rebuilds + 1
  /\ UNCHANGED closed

Close ==
  /\ ~closed
  /\ closed' = TRUE /\ attached' = FALSE
  /\ record' = NoRecord /\ baseline' = NoSnapshot
  /\ UNCHANGED <<told, rebuilds>>

-----------------------------------------------------------------------------
Init ==
  /\ attached = TRUE /\ closed = FALSE /\ rebuilds = 0
  /\ record = NoRecord /\ baseline = NoSnapshot
  /\ told = NothingTold

Next ==
  \/ Receive \/ Silence \/ ReEmitAll \/ EmitSnapshot
  \/ \E present \in BOOLEAN : Attach(present)
  \/ Close

Spec == Init /\ [][Next]_vars

\* The change ticker runs as long as the node does.
Fairness == WF_vars(ReEmitAll)

-----------------------------------------------------------------------------
(* Properties *)

\* What a consumer of the transitions has been told is what the last snapshot
\* shows, or nothing: no transition is left out and none is sent twice.
ToldTruly ==
  ~closed =>
    /\ told.connected = baseline.connected
    /\ told.armed \in {"unknown", baseline.armed}
    /\ told.mode \in {0, baseline.mode}
    /\ told.component => baseline.component
    /\ told.health \in {"unseen", baseline.health}

\* "emits connection_lost/reconnected transitions when a vehicle goes silent
\* without waiting for telemetry that will never arrive": when the vehicle keeps
\* its connection, its mode or its component as it is, the transitions since the
\* engine was built come to add up to that, snapshots on demand in between or
\* not; the first sight tells no mode.
TransitionsAddUp ==
  /\ \A up \in BOOLEAN :
       <>[](record.known /\ Snapshot(record).connected = up) => <>[](told.connected = up)
  /\ \A mode \in Modes :
       <>[](Snapshot(record).mode = mode) => <>[](told.mode \in {0, mode})
  /\ <>[](record.known /\ ~Snapshot(record).component) => <>[](~told.component)
=============================================================================
