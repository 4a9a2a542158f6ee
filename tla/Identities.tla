----------------------------- MODULE Identities -----------------------------
(***************************************************************************)
(* The local identities a connection may transmit as, across deploys that  *)
(* edit, delete and recreate the identity nodes while the connection node  *)
(* stays (nodes/mavlink-ai-connection.js, #228): which reference resolves  *)
(* to which source, the collision check, and the heartbeat schedules.      *)
(***************************************************************************)
EXTENDS Integers, Sequences, FiniteSets

CONSTANTS Ids,    \* ids of the identity config nodes; Default is the connection's
          Wires,  \* the sources (sysid, compid) an identity may have
          MaxEdits  \* bound: identity nodes removed or created

VARIABLES bindings,  \* _identityBindings
          settings,  \* the connection's own configuration
          registry,  \* RED.nodes.getNode: id -> identity node, or Absent
          local,     \* localIdentity: the node the connection holds for Default
          active,    \* _active
          transport, \* _transport is set
          timers,    \* _heartbeatTimers: id -> the node the timer captured, or Absent
          deploy,    \* where the present deploy is: "stopping", "starting" or "done"
          edits,
          sent       \* the frames sent since the last deploy: <<id, source>>

vars == <<bindings, settings, registry, local, active, transport, timers, deploy, edits, sent>>

Default == 1
Absent == [wire |-> 0, valid |-> FALSE]
Nodes == [wire : Wires, valid : BOOLEAN]
NoTimers == [i \in Ids |-> Absent]

\* parseIdentityBindings: a list of specs; an entry without an identity is fatal.
Specs == [identity : Ids, allowOutbound : BOOLEAN, heartbeat : BOOLEAN]

-----------------------------------------------------------------------------
(* resolveOutboundIdentity *)

IsNode(n) == n # Absent

\* bindingFor: the first binding of the identity decides.
BindingFor(id) ==
  LET matching == {k \in DOMAIN bindings : bindings[k].identity = id}
  IN  IF matching = {} THEN [allowOutbound |-> FALSE]
                       ELSE bindings[CHOOSE k \in matching : \A j \in matching : k <= j]

\* The connection's own identity, or an attached binding with permission.
Permitted(id) ==
  \/ id = Default
  \/ settings.allowMultiple /\ BindingFor(id).allowOutbound

\* The source a message that names id transmits as; 0: rejected.
Source(id) ==
  IF local.valid /\ registry[id].valid /\ Permitted(id) THEN registry[id].wire ELSE 0

\* A message that names no identity.
DefaultSource == IF local.valid THEN local.wire ELSE 0

-----------------------------------------------------------------------------
(* The attached set and the schedules *)

\* attachedIdentities
Attached(node, at) ==
  {Default} \cup {bindings[k].identity : k \in {j \in DOMAIN bindings :
                    settings.allowMultiple /\ IsNode(at[bindings[j].identity])}}

\* validateIdentityBindings: two valid attached identities share a source.
Collides(node, at) ==
  LET held(i) == IF i = Default THEN node ELSE at[i]
  IN  \E i, j \in Attached(node, at) :
        /\ i # j
        /\ held(i).valid /\ held(j).valid
        /\ held(i).wire = held(j).wire

\* Fault: a binding without outbound permission is scheduled too.
ScheduledAll(node, at) ==
  {i \in {Default} : settings.heartbeat /\ IsNode(node)}
  \cup {bindings[k].identity : k \in {j \in DOMAIN bindings :
          /\ settings.allowMultiple
          /\ bindings[j].heartbeat
          /\ bindings[j].identity # Default
          /\ IsNode(at[bindings[j].identity])}}

\* heartbeatSpecs: the default's own schedule, and each binding that opted in.
Scheduled(node, at) ==
  {i \in {Default} : settings.heartbeat /\ IsNode(node)}
  \cup {bindings[k].identity : k \in {j \in DOMAIN bindings :
          /\ settings.allowMultiple
          /\ bindings[j].heartbeat /\ bindings[j].allowOutbound
          /\ bindings[j].identity # Default
          /\ IsNode(at[bindings[j].identity])}}

\* startHeartbeats: schedules that run already are left alone.
Started(running, node, at) ==
  [i \in Ids |-> IF running[i] # Absent \/ i \notin Scheduled(node, at) THEN running[i]
                 ELSE IF i = Default THEN node ELSE at[i]]

\* Fault: running schedules are kept across a deploy.
RestartedKept(node) == IF transport THEN Started(timers, node, registry) ELSE NoTimers

\* restartHeartbeats
Restarted(node) == IF transport THEN Started(NoTimers, node, registry) ELSE NoTimers

\* Fault: the set is checked with the node held for the default until now.
CheckedStale == local

\* "By adopting it first when it changed".
Checked == registry[Default]

-----------------------------------------------------------------------------
(* Operations *)

\* Node-RED stops the nodes a deploy removes or replaces, ...
Remove(id) ==
  /\ deploy \in {"done", "stopping"}
  /\ edits < MaxEdits
  /\ IsNode(registry[id])
  /\ registry' = [registry EXCEPT ![id] = Absent]
  /\ deploy' = "stopping"
  /\ edits' = edits + 1
  /\ sent' = {}
  /\ UNCHANGED <<bindings, settings, local, active, transport, timers>>

\* ... then creates the ones it adds or replaces; flows:started comes last.
Create(id, n) ==
  /\ ~IsNode(registry[id])
  /\ edits < MaxEdits
  /\ registry' = [registry EXCEPT ![id] = n]
  /\ deploy' = "starting"
  /\ edits' = edits + 1
  /\ sent' = {}
  /\ UNCHANGED <<bindings, settings, local, active, transport, timers>>

\* deactivate: the transport is released, the timers stop.
Deactivate == active' = FALSE /\ transport' = FALSE /\ timers' = NoTimers

\* reconcileRequiredConfig, with a valid profile: the default is gone or invalid.
FailClosed ==
  /\ deploy # "done"
  /\ ~registry[Default].valid
  /\ Deactivate
  /\ deploy' = "done"
  /\ sent' = {}
  /\ UNCHANGED <<bindings, settings, registry, local, edits>>

\* The fresh default is adopted before the set is checked for collisions.
Refuse ==
  /\ deploy # "done"
  /\ registry[Default].valid
  /\ Collides(Checked, registry)
  /\ local' = registry[Default]
  /\ Deactivate
  /\ deploy' = "done"
  /\ sent' = {}
  /\ UNCHANGED <<bindings, settings, registry, edits>>

\* A running connection goes on; an inactive one is reactivated.
Adopt ==
  /\ deploy # "done"
  /\ registry[Default].valid
  /\ ~Collides(Checked, registry)
  /\ local' = registry[Default]
  /\ active' = TRUE
  /\ timers' = IF active THEN Restarted(registry[Default]) ELSE timers
  /\ deploy' = "done"
  /\ sent' = {}
  /\ UNCHANGED <<bindings, settings, registry, transport, edits>>

\* startTransport, at once or when the previous transport has stopped.
TransportStarts ==
  /\ active /\ ~transport
  /\ transport' = TRUE
  /\ UNCHANGED <<bindings, settings, registry, local, active, timers, deploy, edits, sent>>

\* The 'listening' or 'connected' event.
TransportUp ==
  /\ transport
  /\ timers' = Started(timers, local, registry)
  /\ UNCHANGED <<bindings, settings, registry, local, active, transport, deploy, edits, sent>>

\* send() of a message that names an identity, or of one that names none.
Send(id, source) ==
  /\ active
  /\ source # 0
  /\ sent' = sent \cup {<<id, source>>}
  /\ UNCHANGED <<bindings, settings, registry, local, active, transport, timers, deploy, edits>>

\* _heartbeatTick names the identity by its id.
HeartbeatTick(id) == timers[id] # Absent /\ Send(id, Source(id))

-----------------------------------------------------------------------------
\* The constructed connection; with a collision it would have no runtime at all.
Start(b, s, r) ==
  /\ bindings = b
  /\ settings = s
  /\ registry = r
  /\ local = r[Default]
  /\ active = r[Default].valid
  /\ active => ~Collides(local, registry)
  /\ transport = FALSE
  /\ timers = NoTimers
  /\ deploy = "starting"
  /\ edits = 0
  /\ sent = {}

\* Any list of bindings, any nodes.
Init ==
  \E b \in Seq(Specs), s \in [allowMultiple : BOOLEAN, heartbeat : BOOLEAN],
     r \in [Ids -> Nodes \cup {Absent}] : Start(b, s, r)

Next ==
  \/ \E id \in Ids : Remove(id)
  \/ \E id \in Ids, n \in Nodes : Create(id, n)
  \/ FailClosed
  \/ Refuse
  \/ Adopt
  \/ TransportStarts
  \/ TransportUp
  \/ \E id \in Ids : Send(id, Source(id)) \/ HeartbeatTick(id)
  \/ Send(Default, DefaultSource)

Spec == Init /\ [][Next]_vars

-----------------------------------------------------------------------------
(* Properties *)

\* "Such senders are indistinguishable on the wire, so the configuration
\* fails closed rather than transmitting ambiguously" (validateIdentityBindings):
\* of the frames sent after the reconcile of a deploy and before the next one,
\* no two of different identities carry one source, and none identity two.
SourcesDistinct ==
  deploy = "done" => \A f, g \in sent : (f[1] = g[1]) <=> (f[2] = g[2])

\* "So an edited identity's new heartbeat fields (or a changed binding set)
\* take effect on a running connection" (reconcileRequiredConfig): once a
\* deploy is reconciled, the running timers are those of the schedules, each
\* with the present node of its identity, whatever came up in between.
HeartbeatsCurrent ==
  deploy = "done" /\ timers # NoTimers => timers = Started(NoTimers, registry[Default], registry)

\* The schedules and the permission to transmit are computed apart, yet every
\* running timer of a valid identity can transmit, when no identity is bound
\* twice: otherwise each tick of it is an error (_heartbeatTick).
HeartbeatsPermitted ==
  (\A j, k \in DOMAIN bindings : bindings[j].identity = bindings[k].identity => j = k)
  => \A i \in Ids : timers[i] # Absent /\ registry[i].valid /\ deploy = "done" => Source(i) # 0
=============================================================================
