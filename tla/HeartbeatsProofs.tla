-------------------------- MODULE HeartbeatsProofs --------------------------
(***************************************************************************)
(* The heartbeats of a connection use the outbound queue as any producer   *)
(* does, and what waits in it is never out of date: for any identities,    *)
(* sends, bands, depth of the queue and assertions.                        *)
(***************************************************************************)
EXTENDS Heartbeats, OutboundQueueProofs

\* What waits under the key of an identity is its heartbeat, says what the
\* latest tick found and is not of an identity that was asserted fatal since;
\* other sends carry no heartbeat.
Says(i) ==
  /\ i.key \in Keys => /\ frame[i.send] = [id |-> i.key, status |-> latest[i.key]]
                       /\ health[i.key].state # "fatal"
  /\ i.key \notin Keys => frame[i.send] = NoFrame

HealthTypes ==
  /\ DOMAIN health = Keys /\ DOMAIN latest = Keys /\ DOMAIN frame = Sends
  /\ \A id \in Keys : health[id] = [state |-> health[id].state, expired |-> health[id].expired]

\* A fatal assertion has no lease that could run out.
FatalHasNoLease == \A id \in Keys : health[id].state = "fatal" => health[id].expired = FALSE

HealthInv == Inv /\ HealthTypes /\ FatalHasNoLease /\ \A i \in queue : Says(i)

-----------------------------------------------------------------------------
\* A fatal assertion resolves to the signal to stop.
LEMMA FatalStops ==
  ASSUME NEW record, record.state = "fatal", record.expired = FALSE
  PROVE  Resolve(record) = "stop"
<1>1. record.state # "none"
  OBVIOUS
<1> QED BY <1>1, Zenon DEF Resolve

\* Every step of the heartbeats is a step of the queue, or none.
LEMMA HealthStepIsQueueStep == HealthNext => [Next]_vars
<1> SUFFICES ASSUME HealthNext PROVE [Next]_vars
  OBVIOUS
<1>1. ASSUME NEW s \in Sends, NEW prio \in Priorities, NEW key \in Keys \cup {NoKey},
             Enqueue(s, prio, key) \/ PassThrough(s)
      PROVE  [Next]_vars
  BY <1>1 DEF Next
<1>2. ASSUME NEW id \in Keys, EvictHeartbeats(id) PROVE [Next]_vars
  BY <1>2 DEF EvictHeartbeats, Next
<1>3. ASSUME NEW s \in Sends, NEW id \in Keys, SendHeartbeat(s, id) PROVE [Next]_vars
  BY <1>1, <1>3, HeartbeatsAssumption DEF SendHeartbeat
<1>4. ASSUME NEW id \in Keys, SkipHeartbeat(id) \/ \E state \in Asserted : SetAdvertisedHealth(id, state)
      PROVE  [Next]_vars
  BY <1>2, <1>4 DEF SkipHeartbeat, SetAdvertisedHealth, Silences
<1>5. ASSUME NEW id \in Keys, LeaseExpires(id) PROVE [Next]_vars
  BY <1>5 DEF LeaseExpires
<1>6. ASSUME NEW s \in Sends, NEW prio \in Priorities, OtherSend(s, prio) PROVE [Next]_vars
  BY <1>1, <1>6 DEF OtherSend
<1>7. CASE QueueStep
  BY <1>7 DEF QueueStep, Next
<1> QED BY <1>3, <1>4, <1>5, <1>6, <1>7 DEF HealthNext

\* Everything proved of the queue holds while heartbeats use it.
THEOREM HeartbeatsRideTheQueue == HealthSpec => Spec
<1>1. HealthInit => Init
  BY DEF HealthInit
<1>2. [HealthNext]_allVars => [Next]_vars
  BY HealthStepIsQueueStep DEF allVars
<1> QED BY <1>1, <1>2, PTL DEF HealthSpec, Spec

\* A send that waits has not settled, so what it carries is kept.
LEMMA WaitingIsCarried ==
  ASSUME Inv', NEW assigned, Carried(assigned), NEW i \in queue'
  PROVE  i.send \in Sends /\ frame'[i.send] = assigned[i.send]
<1>1. i.send \in Sends
  BY DEF Inv, TypeOK, Items
<1>2. outcome'[i.send] = "pending"
  BY <1>1 DEF Inv, PendingIffOwned, SendsOf
<1> QED BY <1>1, <1>2 DEF Carried

\* Every send has a frame, a heartbeat or none.
LEMMA CarriedDomain == ASSUME NEW assigned, Carried(assigned) PROVE DOMAIN frame' = Sends
  BY DEF Carried

\* What enqueue() leaves in the queue: what waited under other keys, and at
\* most the new item.
LEMMA EnqueueQueue ==
  ASSUME Inv, NEW s \in Sends, NEW prio \in Priorities, NEW key \in Keys \cup {NoKey}, Enqueue(s, prio, key)
  PROVE  \A i \in queue' : \/ i \in queue /\ i.send # s /\ (i.key # key \/ key = NoKey)
                           \/ i.send = s /\ i.key = key
<1> DEFINE superseded == Superseded(key)
           kept == queue \ superseded
           item == [send |-> s, prio |-> prio, key |-> key, age |-> InheritedAge(superseded)]
<1>1. queue' = kept \/ queue' = kept \cup {item} \/ (queue' = queue /\ inFlight = None)
  BY DEF Enqueue, Push
<1>2. inFlight = None => queue = {}
  BY DEF Inv, WorkConserving
<1>3. \A i \in queue : i.send # s
  BY DEF Enqueue, Free, Inv, PendingIffOwned, SendsOf, TypeOK, Items
<1>4. \A i \in kept : i \in queue /\ (i.key # key \/ key = NoKey)
  BY DEF Superseded, WithKey
<1>5. item.send = s /\ item.key = key
  OBVIOUS
<1> HIDE DEF kept, item
<1> QED BY <1>1, <1>2, <1>3, <1>4, <1>5

\* A disabled queue is empty, and its sends go straight to the writer.
LEMMA PassThroughQueue ==
  ASSUME Inv, NEW s \in Sends, PassThrough(s)
  PROVE  queue' = {} /\ inFlight' = inFlight /\ bypass' = bypass \cup {s}
  BY DEF PassThrough, Inv, OneMode, WorkConserving

-----------------------------------------------------------------------------
\* A connection starts with no assertion, no tick and no frame.
LEMMA HealthStart == HealthInit => HealthInv
  BY InitInv DEF HealthInit, Init, HealthInv, HealthTypes, FatalHasNoLease, NoRecord

\* A tick: the item that was superseded goes, even when its replacement is
\* refused, and the replacement says what the tick found.
LEMMA SendHeartbeatKeeps ==
  ASSUME HealthInv, Inv', NEW s \in Sends, NEW id \in Keys, SendHeartbeat(s, id)
  PROVE  HealthInv'
<1> DEFINE status == Resolve(health[id])
           assigned == [frame EXCEPT ![s] = [id |-> id, status |-> status]]
<1>1. /\ Enqueue(s, Background, id) \/ PassThrough(s)
      /\ latest' = [latest EXCEPT ![id] = status] /\ Carried(assigned) /\ health' = health
      /\ status # "stop"
  BY DEF SendHeartbeat, HealthEdge
<1>2. HealthTypes' /\ FatalHasNoLease'
  BY <1>1, CarriedDomain DEF HealthInv, HealthTypes, FatalHasNoLease
<1>3. \A i \in queue' : Says(i)'
  <2> SUFFICES ASSUME NEW i \in queue' PROVE Says(i)'
    OBVIOUS
  <2>1. i.send \in Sends /\ frame'[i.send] = assigned[i.send]
    <3> HIDE DEF assigned
    <3> QED BY <1>1, WaitingIsCarried
  <2>2. \/ i \in queue /\ i.send # s /\ i.key # id
        \/ i.send = s /\ i.key = id
    <3>1. id # NoKey
      BY QueueAssumption
    <3> QED BY <1>1, <3>1, EnqueueQueue, PassThroughQueue, HeartbeatsAssumption DEF HealthInv
  <2>3. CASE i \in queue /\ i.send # s /\ i.key # id
    BY <1>1, <2>1, <2>3 DEF HealthInv, HealthTypes, Says
  <2>4. CASE i.send = s /\ i.key = id
    <3>1. health[id].state # "fatal"
      BY <1>1, FatalStops DEF HealthInv, FatalHasNoLease
    <3> QED BY <1>1, <2>1, <2>4, <3>1 DEF HealthInv, HealthTypes, Says
  <2> QED BY <2>2, <2>3, <2>4
<1> QED BY <1>2, <1>3 DEF HealthInv

\* Evicting the heartbeats of an identity leaves the rest of the queue.
LEMMA EvictedQueue ==
  ASSUME NEW id \in Keys, EvictHeartbeats(id)
  PROVE  \A i \in queue' : i \in queue /\ i.key # id
  BY DEF EvictHeartbeats, DropCoalescedMatching, WithKey, vars

\* A tick of a fatal identity leaves nothing of it in the queue.
LEMMA SkipHeartbeatKeeps ==
  ASSUME HealthInv, Inv', NEW id \in Keys, SkipHeartbeat(id)
  PROVE  HealthInv'
<1>1. EvictHeartbeats(id) /\ latest' = [latest EXCEPT ![id] = "stop"] /\ Carried(frame) /\ health' = health
  BY DEF SkipHeartbeat, HealthEdge
<1>2. HealthTypes' /\ FatalHasNoLease'
  BY <1>1, CarriedDomain DEF HealthInv, HealthTypes, FatalHasNoLease
<1>3. \A i \in queue' : Says(i)'
  BY <1>1, EvictedQueue, WaitingIsCarried DEF HealthInv, HealthTypes, Says
<1> QED BY <1>2, <1>3 DEF HealthInv

\* A fatal assertion takes the heartbeats of the identity out of the queue at once.
LEMMA SetAdvertisedHealthKeeps ==
  ASSUME HealthInv, Inv', NEW id \in Keys, NEW state \in Asserted, SetAdvertisedHealth(id, state)
  PROVE  HealthInv'
<1>1. /\ health' = [health EXCEPT ![id] = [state |-> state, expired |-> FALSE]]
      /\ latest' = latest /\ Carried(frame)
  BY DEF SetAdvertisedHealth
<1>2. HealthTypes' /\ FatalHasNoLease'
  BY <1>1, CarriedDomain DEF HealthInv, HealthTypes, FatalHasNoLease
<1>3. \A i \in queue' : i \in queue /\ (i.key # id \/ state # "fatal")
  <2>1. CASE state = "fatal"
    BY <2>1, EvictedQueue DEF SetAdvertisedHealth, Silences
  <2>2. CASE state # "fatal"
    BY <2>2 DEF SetAdvertisedHealth, Silences, vars
  <2> QED BY <2>1, <2>2
<1>4. \A k \in Keys : health'[k].state = IF k = id THEN state ELSE health[k].state
  BY <1>1 DEF HealthInv, HealthTypes
<1>5. \A i \in queue' : Says(i)'
  BY <1>1, <1>3, <1>4, WaitingIsCarried DEF HealthInv, Says
<1> QED BY <1>2, <1>5 DEF HealthInv

\* A lease that runs out leaves what waits to the next tick.
LEMMA LeaseExpiresKeeps ==
  ASSUME HealthInv, Inv', NEW id \in Keys, LeaseExpires(id)
  PROVE  HealthInv'
<1>1. health' = [health EXCEPT ![id].expired = TRUE] /\ UNCHANGED <<queue, latest, frame>>
  BY DEF LeaseExpires, vars
<1>2. HealthTypes' /\ FatalHasNoLease' /\ \A k \in Keys : health'[k].state = health[k].state
  <2>1. health[id].state # "fatal" /\ health'[id] = [state |-> health[id].state, expired |-> TRUE]
    BY <1>1 DEF HealthInv, HealthTypes, LeaseExpires
  <2>2. \A k \in Keys \ {id} : health'[k] = health[k]
    BY <1>1
  <2>3. DOMAIN health' = Keys
    BY <1>1 DEF HealthInv, HealthTypes
  <2>4. health'[id].state = health[id].state /\ health'[id].expired = TRUE
    BY <2>1
  <2>5. \A k \in Keys : health'[k].state = health[k].state
    BY <2>2, <2>4
  <2>6. FatalHasNoLease'
    <3> SUFFICES ASSUME NEW k \in Keys, health'[k].state = "fatal" PROVE health'[k].expired = FALSE
      BY DEF FatalHasNoLease
    <3>1. k # id
      BY <2>1, <2>5
    <3>2. health'[k] = health[k]
      BY <2>2, <3>1
    <3> QED BY <3>2 DEF HealthInv, FatalHasNoLease
  <2>7. \A k \in Keys : health'[k] = [state |-> health'[k].state, expired |-> health'[k].expired]
    <3> SUFFICES ASSUME NEW k \in Keys
                 PROVE  health'[k] = [state |-> health'[k].state, expired |-> health'[k].expired]
      OBVIOUS
    <3>1. CASE k = id
      BY <2>1, <2>4, <3>1
    <3>2. CASE k # id
      BY <2>2, <3>2 DEF HealthInv, HealthTypes
    <3> QED BY <3>1, <3>2
  <2>8. HealthTypes'
    BY <1>1, <2>3, <2>7, Zenon DEF HealthInv, HealthTypes
  <2> QED BY <2>5, <2>6, <2>8
<1> QED BY <1>1, <1>2 DEF HealthInv, Says

\* Other traffic takes no key and supersedes nothing.
LEMMA OtherSendKeeps ==
  ASSUME HealthInv, Inv', NEW s \in Sends, NEW prio \in Priorities, OtherSend(s, prio)
  PROVE  HealthInv'
<1> DEFINE assigned == [frame EXCEPT ![s] = NoFrame]
<1>1. (Enqueue(s, prio, NoKey) \/ PassThrough(s)) /\ Carried(assigned) /\ UNCHANGED <<health, latest>>
  BY DEF OtherSend
<1>2. HealthTypes' /\ FatalHasNoLease'
  BY <1>1, CarriedDomain DEF HealthInv, HealthTypes, FatalHasNoLease
<1>3. \A i \in queue' : Says(i)'
  <2> SUFFICES ASSUME NEW i \in queue' PROVE Says(i)'
    OBVIOUS
  <2>1. i.send \in Sends /\ frame'[i.send] = assigned[i.send]
    <3> HIDE DEF assigned
    <3> QED BY <1>1, WaitingIsCarried
  <2>2. \/ i \in queue /\ i.send # s
        \/ i.send = s /\ i.key = NoKey
    BY <1>1, EnqueueQueue, PassThroughQueue DEF HealthInv
  <2> QED BY <1>1, <2>1, <2>2, QueueAssumption DEF HealthInv, HealthTypes, Says
<1> QED BY <1>2, <1>3 DEF HealthInv

\* The rest of the queue's life takes items away or makes them older.
LEMMA QueueStepKeeps ==
  ASSUME HealthInv, Inv', QueueStep
  PROVE  HealthInv'
<1>1. Carried(frame) /\ UNCHANGED <<health, latest>>
  BY DEF QueueStep
<1>2. \A i \in queue' : \E j \in queue : i.send = j.send /\ i.key = j.key
  <2>1. ASSUME NEW written \in BOOLEAN, WriteSettles(written) PROVE queue' \subseteq queue
    BY <2>1, StartNextQueue DEF WriteSettles, HealthInv
  <2>2. CASE Tick
    BY <2>2 DEF Tick, HealthInv, Inv, TypeOK, Items
  <2> QED BY <2>1, <2>2 DEF QueueStep, PassThroughSettles, Clear
<1>3. HealthTypes' /\ FatalHasNoLease'
  BY <1>1, CarriedDomain DEF HealthInv, HealthTypes, FatalHasNoLease
<1>4. \A i \in queue' : Says(i)'
  BY <1>1, <1>2, WaitingIsCarried DEF HealthInv, Says
<1> QED BY <1>3, <1>4 DEF HealthInv

\* The invariant is inductive.
LEMMA HealthStep == HealthInv /\ [HealthNext]_allVars => HealthInv'
<1> SUFFICES ASSUME HealthInv, [HealthNext]_allVars PROVE HealthInv'
  OBVIOUS
<1>1. Inv'
  BY NextInv, HealthStepIsQueueStep DEF HealthInv, allVars
<1>2. CASE UNCHANGED allVars
  BY <1>1, <1>2 DEF allVars, vars, healthVars, HealthInv, HealthTypes, FatalHasNoLease, Says
<1>3. CASE HealthNext
  BY <1>1, <1>3, SendHeartbeatKeeps, SkipHeartbeatKeeps, SetAdvertisedHealthKeeps, LeaseExpiresKeeps,
     OtherSendKeeps, QueueStepKeeps DEF HealthNext
<1> QED BY <1>2, <1>3

\* The invariant holds in every reachable state.
LEMMA HealthInvariance == HealthSpec => []HealthInv
  BY HealthStart, HealthStep, PTL DEF HealthSpec

\* Every heartbeat that waits says what the latest tick of its identity found,
\* whether the queue accepts sends or is full.
THEOREM LatestTickSpoken == HealthSpec => []LatestTickSpeaks
<1>1. HealthInv => LatestTickSpeaks
  BY DEF HealthInv, Says, LatestTickSpeaks
<1> QED BY <1>1, HealthInvariance, PTL

-----------------------------------------------------------------------------
\* A write that begins is of a send that waited, or of the send just made.
LEMMA WhatBegins ==
  ASSUME Inv, NEW s \in Sends, NEW prio \in Priorities, NEW key \in Keys \cup {NoKey},
         Enqueue(s, prio, key) \/ PassThrough(s), NEW t \in Sends, Begins(t)
  PROVE  t = s /\ outcome'[s] = "pending"
<1>1. CASE Enqueue(s, prio, key)
  <2>1. bypass' = bypass /\ inFlight' # inFlight
    BY <1>1 DEF Enqueue, Begins
  <2>2. ~Full(queue \ Superseded(key)) /\ inFlight'.send = s
    BY <1>1, <2>1 DEF Enqueue, Push
  <2>3. outcome' = [Evicted(Superseded(key), "superseded") EXCEPT ![s] = "pending"]
    BY <1>1, <2>2 DEF Enqueue
  <2>4. DOMAIN Evicted(Superseded(key), "superseded") = Sends
    BY DEF Evicted
  <2> QED BY <2>1, <2>2, <2>3, <2>4 DEF Begins
<1>2. CASE PassThrough(s)
  BY <1>2 DEF PassThrough, Begins, Inv, TypeOK
<1> QED BY <1>1, <1>2

\* From a fatal assertion on, no write of a heartbeat of the identity begins:
\* not of one that waited, nor of one a timer sends later.
THEOREM FatalIsSilent == HealthSpec => FatalSilences
<1> DEFINE Silent == \A s \in Sends : Begins(s) /\ frame'[s].id \in Keys
                        => health'[frame'[s].id].state # "fatal"
<1>1. HealthInv /\ [HealthNext]_allVars => [Silent]_allVars
  <2> SUFFICES ASSUME HealthInv, HealthNext, NEW t \in Sends, Begins(t), frame'[t].id \in Keys
               PROVE  health'[frame'[t].id].state # "fatal"
    OBVIOUS
  <2>0. NoFrame.id \notin Keys
    BY QueueAssumption DEF NoFrame
  <2>1. ASSUME NEW s \in Sends, NEW id \in Keys, SendHeartbeat(s, id)
        PROVE  health'[frame'[t].id].state # "fatal"
    <3>1. t = s /\ outcome'[s] = "pending"
      BY <2>1, WhatBegins, HeartbeatsAssumption DEF SendHeartbeat, HealthInv
    <3>2. frame'[s] = [id |-> id, status |-> Resolve(health[id])]
      BY <2>1, <3>1 DEF SendHeartbeat, Carried, HealthInv, HealthTypes
    <3>3. health' = health /\ health[id].state # "fatal"
      BY <2>1, FatalStops DEF SendHeartbeat, HealthInv, FatalHasNoLease
    <3> QED BY <3>1, <3>2, <3>3
  <2>2. ASSUME NEW s \in Sends, NEW prio \in Priorities, OtherSend(s, prio) PROVE FALSE
    <3>1. t = s /\ outcome'[s] = "pending"
      BY <2>2, WhatBegins DEF OtherSend, HealthInv
    <3>2. frame'[s] = NoFrame
      BY <2>2, <3>1 DEF OtherSend, Carried, HealthInv, HealthTypes
    <3> QED BY <2>0, <3>1, <3>2
  <2>3. ASSUME NEW id \in Keys, EvictHeartbeats(id) PROVE FALSE
    BY <2>3 DEF EvictHeartbeats, DropCoalescedMatching, Begins, vars
  <2>4. ASSUME NEW id \in Keys, SkipHeartbeat(id) \/ \E state \in Asserted : SetAdvertisedHealth(id, state)
        PROVE  FALSE
    BY <2>3, <2>4 DEF SkipHeartbeat, SetAdvertisedHealth, Silences, Begins, vars
  <2>5. ASSUME NEW id \in Keys, LeaseExpires(id) PROVE FALSE
    BY <2>5 DEF LeaseExpires, Begins, vars
  <2>6. CASE QueueStep
    <3>1. Carried(frame) /\ health' = health
      BY <2>6 DEF QueueStep
    <3>2. PICK written \in BOOLEAN : WriteSettles(written)
      BY <2>6 DEF QueueStep, PassThroughSettles, Clear, Tick, Begins
    <3>3. inFlight' \in queue /\ inFlight' # None /\ inFlight'.send = t
      BY <3>2, StartNextEffect DEF WriteSettles, Begins, HealthInv
    <3>4. frame'[t] = frame[t] /\ Says(inFlight')
      BY <3>1, <3>3 DEF Carried, HealthInv
    <3> QED BY <2>0, <3>1, <3>3, <3>4 DEF Says
  <2> QED BY <2>1, <2>2, <2>4, <2>5, <2>6 DEF HealthNext
<1> QED BY <1>1, HealthInvariance, PTL DEF HealthSpec, FatalSilences
=============================================================================
