------------------------------ MODULE Heartbeats ------------------------------
(***************************************************************************)
(* The heartbeats of a connection (nodes/mavlink-ai-connection.js) and the *)
(* health a flow advertises through them (lib/health/advertised-health.js).*)
(* A timer per identity computes the status from the latest assertion and  *)
(* hands a frame to the outbound queue, at background priority and under a *)
(* coalesce key of the identity; a fatal assertion silences the identity.  *)
(* A key of OutboundQueue stands for a health-driven identity.             *)
(***************************************************************************)
EXTENDS OutboundQueue

CONSTANTS Asserted,   \* the health states flows assert, among HealthStates
          Background  \* the band of heartbeats (PRIORITY.BACKGROUND)

HealthStates == {"nominal", "degraded", "emergency", "fatal"}

ASSUME HeartbeatsAssumption == Asserted \subseteq HealthStates /\ Background \in Priorities

VARIABLES health,  \* _advertisedHealth: the stored record of an identity
          latest,  \* what its latest tick did; "stop": in _healthFatalIdentities
          frame    \* the heartbeat a send carries until it settles

healthVars == <<health, latest, frame>>
allVars == <<vars, healthVars>>

NoRecord == [state |-> "none", expired |-> FALSE]
NoFrame == [id |-> NoKey, status |-> "none"]

-----------------------------------------------------------------------------
StatusByState ==
  [nominal |-> "ACTIVE", degraded |-> "CRITICAL", emergency |-> "EMERGENCY"]

\* resolveHeartbeatStatus: a status, or the signal to stop.
Resolve(record) ==
  CASE record.state = "none"  -> "STANDBY"
    [] record.state = "fatal" -> "stop"
    [] record.expired         -> "CRITICAL"
    [] OTHER                  -> StatusByState[record.state]

\* A settled send no longer carries a frame.
Carried(assigned) ==
  frame' = [s \in Sends |-> IF outcome'[s] = "pending" \/ (inFlight' # None /\ inFlight'.send = s)
                              THEN assigned[s] ELSE NoFrame]

\* _evictQueuedHeartbeats
EvictHeartbeats(id) ==
  \/ WithKey({id}) # {} /\ DropCoalescedMatching({id})
  \/ WithKey({id}) = {} /\ UNCHANGED vars

\* _handleHeartbeatHealthEdge: fatal identities are remembered, others dropped.
HealthEdge(id, status) == latest' = [latest EXCEPT ![id] = status]

\* _heartbeatTick with a status to report: send() at background priority.
SendHeartbeat(s, id) ==
  /\ Resolve(health[id]) # "stop"
  /\ Enqueue(s, Background, id) \/ PassThrough(s)
  /\ HealthEdge(id, Resolve(health[id]))
  /\ Carried([frame EXCEPT ![s] = [id |-> id, status |-> Resolve(health[id])]])
  /\ UNCHANGED health

\* _heartbeatTick of a fatal identity: nothing is sent, what waits is dropped.
SkipHeartbeat(id) ==
  /\ Resolve(health[id]) = "stop"
  /\ EvictHeartbeats(id)
  /\ HealthEdge(id, "stop")
  /\ Carried(frame)
  /\ UNCHANGED health

\* Fault: the eviction is left to the next tick.
SilencesNextTick(id, state) == UNCHANGED vars

\* "Evict synchronously, not on the next tick".
Silences(id, state) == IF state = "fatal" THEN EvictHeartbeats(id) ELSE UNCHANGED vars

\* setAdvertisedHealth: a new lease, or none for a fatal state.
SetAdvertisedHealth(id, state) ==
  /\ health' = [health EXCEPT ![id] = [state |-> state, expired |-> FALSE]]
  /\ Silences(id, state)
  /\ Carried(frame)
  /\ UNCHANGED latest

\* The time to live of an assertion runs out (now >= expires_at).
LeaseExpires(id) ==
  /\ health[id].state \notin {"none", "fatal"}
  /\ health' = [health EXCEPT ![id].expired = TRUE]
  /\ UNCHANGED <<vars, latest, frame>>

\* The other traffic of the connection.
OtherSend(s, prio) ==
  /\ Enqueue(s, prio, NoKey) \/ PassThrough(s)
  /\ Carried([frame EXCEPT ![s] = NoFrame])
  /\ UNCHANGED <<health, latest>>

QueueStep ==
  /\ \/ \E written \in BOOLEAN : WriteSettles(written)
     \/ \E s \in Sends, written \in BOOLEAN : PassThroughSettles(s, written)
     \/ Clear
     \/ Tick
  /\ Carried(frame)
  /\ UNCHANGED <<health, latest>>

-----------------------------------------------------------------------------
HealthInit ==
  /\ Init
  /\ health = [id \in Keys |-> NoRecord]
  /\ latest = [id \in Keys |-> "none"]
  /\ frame = [s \in Sends |-> NoFrame]

HealthNext ==
  \/ \E s \in Sends, id \in Keys : SendHeartbeat(s, id)
  \/ \E id \in Keys : SkipHeartbeat(id)
  \/ \E id \in Keys, state \in Asserted : SetAdvertisedHealth(id, state)
  \/ \E id \in Keys : LeaseExpires(id)
  \/ \E s \in Sends, prio \in Priorities : OtherSend(s, prio)
  \/ QueueStep

HealthSpec == HealthInit /\ [][HealthNext]_allVars

\* Fair write settlements and a clock, as in OutboundQueue; no timer, flow or
\* producer is assumed to act.
HealthFairSpec ==
  /\ HealthSpec
  /\ WF_vars(\E written \in BOOLEAN : WriteSettles(written))
  /\ \A s \in Sends : WF_vars(\E written \in BOOLEAN : PassThroughSettles(s, written))
  /\ WF_vars(Tick)

-----------------------------------------------------------------------------
(* Properties *)

Begins(s) ==
  \/ inFlight' # inFlight /\ inFlight' # None /\ inFlight'.send = s
  \/ s \in bypass' \ bypass

\* "A fatal assertion must stop the identity's heartbeat immediately, not up
\* to one heartbeat interval later" (setAdvertisedHealth): from the assertion
\* on, no write of a heartbeat of the identity begins, though the frame was
\* queued before it, until a later assertion is not fatal.
FatalSilences ==
  [][\A s \in Sends : Begins(s) /\ frame'[s].id \in Keys
       => health'[frame'[s].id].state # "fatal"]_allVars

\* Every heartbeat that waits says what the latest tick of its identity found:
\* a tick never leaves an older claim in the queue, not even when the queue is
\* full and refuses sends.  So a claim outlives its lease by one tick at most.
LatestTickSpeaks ==
  \A i \in queue : i.key \in Keys => frame[i.send] = [id |-> i.key, status |-> latest[i.key]]
=============================================================================
