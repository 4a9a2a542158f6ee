----------------------------- MODULE Attachment -----------------------------
(***************************************************************************)
(* How a flow node stays attached to its connection node across deploys    *)
(* that replace the connection, its profile or the flow node itself        *)
(* (attach() and detach() of nodes/mavlink-ai-in.js, -swarm.js and         *)
(* -vehicle-state.js; -formation.js does as -swarm.js).  Both nodes listen *)
(* to flows:started, and their order is the order in which they registered.*)
(***************************************************************************)
EXTENDS Integers

CONSTANTS MaxChanges  \* bound: nodes removed or created

VARIABLES kind,     \* the flow node: "in", "swarm" or "vehicleState"
          conn,     \* RED.nodes.getNode(config.connection): its number, or None
          held,     \* what that connection holds as its profile, or None
          profile,  \* the profile node registered, or None
          flow,     \* the flow node: "absent", "open", or "broken" by its constructor
          first,    \* its flows:started listener precedes that of the connection
          own,      \* the variables of the flow node
          deploy,   \* "stopping", "config", "flows", or "done" after flows:started
          changes

vars == <<kind, conn, held, profile, flow, first, own, deploy, changes>>

None == 0
Fresh == [connection |-> None, attachedTo |-> None, subs |-> 0, source |-> None]

-----------------------------------------------------------------------------
(* attach() and detach() *)

\* Fault: the old subscription is forgotten, not dropped.
DetachedForgets(a) == [a EXCEPT !.attachedTo = None]

\* detach: the subscription at the attached connection is dropped.
Detached(a) ==
  IF a.attachedTo = None THEN a ELSE [a EXCEPT !.attachedTo = None, !.subs = 0]

\* Fault: a swapped profile is not noticed.
UnchangedConnection(a, p) == conn # None /\ conn = a.attachedTo /\ conn = a.connection

\* "Rebuild on a changed connection OR a changed profile object".
Unchanged(a, p) ==
  /\ conn # None /\ conn = a.attachedTo /\ conn = a.connection
  /\ kind = "vehicleState" => p = a.source

\* profile.getDialect() of a connection that never had a profile.
Throws(a, p) ==
  /\ ~Unchanged(a, p)
  /\ conn # None /\ p = None
  /\ kind = "vehicleState" \/ (kind = "swarm" /\ a.source = None)

\* The registry of a swarm node is built once, the engine of a vehicle-state
\* node at each attachment; source is the profile it was built from.
Attached(a, p) ==
  CASE Unchanged(a, p) -> a
    [] conn = None -> [Detached(a) EXCEPT !.connection = None,
                         !.source = IF kind = "vehicleState" THEN None ELSE @]
    [] Throws(a, p) -> [Detached(a) EXCEPT !.connection = conn]
    [] OTHER -> LET d == Detached(a)
                IN  [d EXCEPT !.connection = conn, !.attachedTo = conn, !.subs = @ + 1,
                       !.source = IF kind = "swarm" /\ @ # None THEN @ ELSE p]

-----------------------------------------------------------------------------
(* The steps of a deploy: nodes are stopped, config nodes created, flow      *)
(* nodes created, then flows:started is emitted.                             *)

Change == changes < MaxChanges /\ changes' = changes + 1

\* The close handler of a connection clears its subscriptions.
RemoveConnection ==
  /\ deploy \in {"done", "stopping"} /\ conn # None
  /\ Change
  /\ conn' = None
  /\ held' = None
  /\ own' = [own EXCEPT !.subs = 0]
  /\ deploy' = "stopping"
  /\ UNCHANGED <<kind, profile, flow, first>>

\* The connection looks its profile up, and registers its listener.
CreateConnection ==
  /\ deploy # "flows" /\ conn = None
  /\ Change
  /\ conn' = changes + 1
  /\ held' = profile
  /\ first' = (flow = "open")
  /\ deploy' = "config"
  /\ UNCHANGED <<kind, profile, flow, own>>

RemoveProfile ==
  /\ deploy \in {"done", "stopping"} /\ profile # None
  /\ Change
  /\ profile' = None
  /\ deploy' = "stopping"
  /\ UNCHANGED <<kind, conn, held, flow, first, own>>

CreateProfile ==
  /\ deploy # "flows" /\ profile = None
  /\ Change
  /\ profile' = changes + 1
  /\ deploy' = "config"
  /\ UNCHANGED <<kind, conn, held, flow, first, own>>

\* The close handler detaches and removes the listener.
RemoveFlow ==
  /\ deploy \in {"done", "stopping"} /\ flow # "absent"
  /\ Change
  /\ flow' = "absent"
  /\ own' = Fresh
  /\ deploy' = "stopping"
  /\ UNCHANGED <<kind, conn, held, profile, first>>

\* The constructor attaches before it listens to flows:started.
CreateFlow ==
  /\ flow = "absent"
  /\ Change
  /\ flow' = IF Throws(Fresh, held) THEN "broken" ELSE "open"
  /\ own' = Attached(Fresh, held)
  /\ first' = FALSE
  /\ deploy' = "flows"
  /\ UNCHANGED <<kind, conn, held, profile>>

\* reconcileRequiredConfig: a missing profile leaves the held one in place.
Reconciled == IF conn = None \/ profile = None THEN held ELSE profile

\* flows:started: the listeners run in order; one that throws ends the round.
FlowsStarted ==
  /\ deploy # "done"
  /\ held' = IF flow = "open" /\ first /\ Throws(own, held) THEN held ELSE Reconciled
  /\ own' = IF flow # "open" THEN own
            ELSE Attached(own, IF first THEN held ELSE Reconciled)
  /\ deploy' = "done"
  /\ UNCHANGED <<kind, conn, profile, flow, first, changes>>

-----------------------------------------------------------------------------
Start(k) ==
  /\ kind = k
  /\ conn = None /\ held = None /\ profile = None
  /\ flow = "absent"
  /\ first = FALSE
  /\ own = Fresh
  /\ deploy = "done"
  /\ changes = 0

Next ==
  \/ RemoveConnection
  \/ CreateConnection
  \/ RemoveProfile
  \/ CreateProfile
  \/ RemoveFlow
  \/ CreateFlow
  \/ FlowsStarted

-----------------------------------------------------------------------------
(* Properties *)

\* After each deploy a flow node is subscribed to the connection its
\* configuration names, exactly once, when that connection has a profile; a
\* message is neither missed for ever nor delivered twice (#164).
AttachedOnce ==
  deploy = "done" /\ flow = "open" /\ conn # None /\ held # None
  => own.attachedTo = conn /\ own.subs = 1

\* While the connection is reconciled before the vehicle-state node, a deploy
\* never leaves it with the enums of a profile that has been replaced.
EngineFollowsProfile ==
  deploy = "done" /\ flow = "open" /\ kind = "vehicleState" /\ ~first /\ conn # None
  => own.source = held

\* "Otherwise enum names resolve against stale enums and fresh telemetry diffs
\* against the previous state" (attach() of mavlink-ai-vehicle-state): the
\* engine is of the present profile after every deploy.
EngineIsCurrent ==
  deploy = "done" /\ flow = "open" /\ kind = "vehicleState" /\ own.attachedTo # None
  => own.source = held

\* A profile that is missing when the connection is created "heals on a later
\* deploy" (#238): no deploy with a profile leaves the connection without it.
ProfileHeals == deploy = "done" /\ conn # None /\ profile # None => held = profile
=============================================================================
