----------------------- MODULE ConnectionPartsProofs -----------------------
(***************************************************************************)
(* Theorems about the parts of a connection, for all values of the         *)
(* constants: identities, replay trackers, routes, attachments, includes,  *)
(* profiles and subscriptions.  Each part is proved about by itself; at the*)
(* end of its section the parts together are shown to keep what the runs   *)
(* check.  Of the commands this follows from the proofs they have alone.   *)
(***************************************************************************)
EXTENDS MCConnectionParts, CommandWorkflowProofs, Sequences, FiniteSetTheorems, WellFoundedInduction, TLAPS

-----------------------------------------------------------------------------
(* Identities.  For any list of identity bindings and any deploys that     *)
(* edit, delete and recreate the identities, what an active connection     *)
(* transmits after a deploy names its sender.                              *)

IdentitiesTyped ==
  /\ identityNodes \in [Ids -> Id!Nodes \cup {Id!Absent}]
  /\ DOMAIN bindings \subseteq Nat

\* Once a deploy is reconciled, an active connection holds the present default,
\* which is valid, and its attached identities do not collide.
DeployReconciled ==
  identityDeploy = "done" /\ identityActive =>
    /\ local = identityNodes[Id!Default] /\ local.valid
    /\ ~Id!Collides(local, identityNodes)

\* What has been sent since the reconcile carries the source of an identity
\* that is attached and valid now.
Truthful(f) ==
  /\ f[1] \in Id!Attached(identityNodes[Id!Default], identityNodes)
  /\ identityNodes[f[1]].valid
  /\ f[2] = identityNodes[f[1]].wire

SentAreTruthful == identityDeploy = "done" /\ sent # {} => identityActive /\ \A f \in sent : Truthful(f)

TimersNeedTransport == (identityTransport => identityActive) /\ (timers # Id!NoTimers => identityTransport)

IdentityInv == IdentitiesTyped /\ DeployReconciled /\ SentAreTruthful /\ TimersNeedTransport /\ Id!HeartbeatsCurrent

-----------------------------------------------------------------------------
\* Whoever may transmit is attached.
LEMMA PermittedAttached ==
  ASSUME NEW id \in Ids, identityNodes[id].valid, Id!Permitted(id)
  PROVE  id \in Id!Attached(identityNodes[Id!Default], identityNodes)
<1>1. identityNodes[id] # Id!Absent
  BY DEF Id!Absent
<1>2. CASE id = Id!Default
  BY <1>2 DEF Id!Attached
<1>3. CASE id # Id!Default
  <2>1. settings.allowMultiple /\ Id!BindingFor(id).allowOutbound
    BY <1>3 DEF Id!Permitted
  <2>2. PICK k \in DOMAIN bindings : bindings[k].identity = id
    BY <2>1 DEF Id!BindingFor
  <2> QED BY <1>1, <2>1, <2>2 DEF Id!Attached, Id!IsNode
<1> QED BY <1>2, <1>3

\* A message that names an identity, or none, says who sent it.
LEMMA SendIsTruthful ==
  ASSUME local = identityNodes[Id!Default], NEW id \in Ids, NEW source,
         source = Id!Source(id) \/ (id = Id!Default /\ source = Id!DefaultSource), source # 0
  PROVE  Truthful(<<id, source>>)
<1>1. CASE source = Id!Source(id)
  <2>1. identityNodes[id].valid /\ Id!Permitted(id) /\ source = identityNodes[id].wire
    BY <1>1 DEF Id!Source
  <2> QED BY <2>1, PermittedAttached DEF Truthful
<1>2. CASE id = Id!Default /\ source = Id!DefaultSource
  <2>1. identityNodes[id].valid /\ source = identityNodes[id].wire
    BY <1>2 DEF Id!DefaultSource
  <2>2. id \in Id!Attached(identityNodes[Id!Default], identityNodes)
    BY <1>2 DEF Id!Attached
  <2> QED BY <2>1, <2>2 DEF Truthful
<1> QED BY <1>1, <1>2

\* Schedules that run already are left alone.
LEMMA StartedTwice ==
  ASSUME NEW node, NEW at
  PROVE  /\ Id!Started(Id!Started(Id!NoTimers, node, at), node, at) = Id!Started(Id!NoTimers, node, at)
BY DEF Id!Started, Id!NoTimers

-----------------------------------------------------------------------------
\* The invariant holds of the connection just constructed.
LEMMA IdentityStart ==
  ASSUME NEW b, NEW s, NEW r \in [Ids -> Id!Nodes \cup {Id!Absent}], DOMAIN b \subseteq Nat, Id!Start(b, s, r)
  PROVE  IdentityInv
BY DEF Id!Start, IdentityInv, IdentitiesTyped, DeployReconciled, SentAreTruthful, TimersNeedTransport,
       Id!HeartbeatsCurrent

LEMMA IdentityInit == Id!Init => IdentityInv
  BY IdentityStart DEF Id!Init

\* What a step that sends a message keeps.
LEMMA SendKeeps ==
  ASSUME IdentityInv, Id!Default \in Ids, NEW id \in Ids, NEW source, Id!Send(id, source),
         source = Id!Source(id) \/ (id = Id!Default /\ source = Id!DefaultSource)
  PROVE  IdentityInv'
<1>1. /\ identityActive /\ source # 0 /\ sent' = sent \cup {<<id, source>>}
      /\ UNCHANGED <<bindings, settings, identityNodes, local, identityActive, identityTransport, timers, identityDeploy, identityEdits>>
  BY DEF Id!Send
<1>2. IdentitiesTyped' /\ DeployReconciled' /\ TimersNeedTransport' /\ Id!HeartbeatsCurrent'
  BY <1>1 DEF IdentityInv, IdentitiesTyped, DeployReconciled, Id!Collides, Id!Attached, TimersNeedTransport,
              Id!HeartbeatsCurrent, Id!Started, Id!Scheduled
<1>3. SentAreTruthful'
  <2>1. CASE identityDeploy = "done"
    <3>1. Truthful(<<id, source>>)
      BY <1>1, <2>1, SendIsTruthful DEF IdentityInv, DeployReconciled
    <3>2. \A f \in sent' : Truthful(f)
      BY <1>1, <2>1, <3>1 DEF IdentityInv, SentAreTruthful
    <3> QED BY <1>1, <3>2 DEF SentAreTruthful, Truthful, Id!Attached
  <2>2. CASE identityDeploy # "done"
    BY <1>1, <2>2 DEF SentAreTruthful
  <2> QED BY <2>1, <2>2
<1> QED BY <1>2, <1>3 DEF IdentityInv

\* Every step keeps the invariant.
LEMMA IdentityNext == ASSUME IdentityInv, Id!Default \in Ids, [Id!Next]_(Id!vars) PROVE IdentityInv'
<1>0. IdentitiesTyped'
  <2>1. Id!Absent \in Id!Nodes \cup {Id!Absent} /\ identityNodes \in [Ids -> Id!Nodes \cup {Id!Absent}]
    BY DEF IdentityInv, IdentitiesTyped
  <2>2. UNCHANGED bindings
    BY DEF Id!Next, Id!Remove, Id!Create, Id!FailClosed, Id!Refuse, Id!Adopt, Id!TransportStarts,
           Id!TransportUp, Id!HeartbeatTick, Id!Send, Id!vars
  <2>3. \/ UNCHANGED identityNodes
        \/ \E id \in Ids : identityNodes' = [identityNodes EXCEPT ![id] = Id!Absent]
        \/ \E id \in Ids, n \in Id!Nodes : identityNodes' = [identityNodes EXCEPT ![id] = n]
    BY DEF Id!Next, Id!Remove, Id!Create, Id!FailClosed, Id!Refuse, Id!Adopt, Id!TransportStarts,
           Id!TransportUp, Id!HeartbeatTick, Id!Send, Id!vars
  <2> QED BY <2>1, <2>2, <2>3 DEF IdentityInv, IdentitiesTyped
<1>1. CASE (\E id \in Ids : Id!Remove(id)) \/ \E id \in Ids, n \in Id!Nodes : Id!Create(id, n)
  <2>1. identityDeploy' # "done" /\ UNCHANGED <<identityActive, identityTransport, timers>>
    BY <1>1 DEF Id!Remove, Id!Create
  <2> QED BY <1>0, <2>1 DEF IdentityInv, DeployReconciled, SentAreTruthful, TimersNeedTransport, Id!HeartbeatsCurrent, Id!NoTimers
<1>2. CASE Id!FailClosed \/ Id!Refuse
  <2>1. identityActive' = FALSE /\ identityTransport' = FALSE /\ timers' = Id!NoTimers /\ sent' = {}
    BY <1>2 DEF Id!FailClosed, Id!Refuse, Id!Deactivate
  <2> QED BY <1>0, <2>1 DEF IdentityInv, DeployReconciled, SentAreTruthful, TimersNeedTransport, Id!HeartbeatsCurrent, Id!NoTimers
<1>3. CASE Id!Adopt
  <2>1. /\ local' = identityNodes[Id!Default] /\ ~Id!Collides(identityNodes[Id!Default], identityNodes) /\ sent' = {} /\ identityNodes[Id!Default].valid
        /\ identityActive' = TRUE /\ UNCHANGED <<bindings, settings, identityNodes, identityTransport>>
        /\ timers' = IF identityActive THEN Id!Restarted(identityNodes[Id!Default]) ELSE timers
    BY <1>3 DEF Id!Adopt, Id!Checked
  <2>2. DeployReconciled' /\ SentAreTruthful'
    BY <2>1 DEF DeployReconciled, SentAreTruthful, Id!Collides, Id!Attached
  <2>3. timers' = Id!NoTimers \/ (identityTransport /\ timers' = Id!Started(Id!NoTimers, identityNodes[Id!Default], identityNodes))
    BY <2>1 DEF Id!Restarted, IdentityInv, TimersNeedTransport
  <2>4. TimersNeedTransport' /\ Id!HeartbeatsCurrent'
    BY <2>1, <2>3 DEF TimersNeedTransport, Id!HeartbeatsCurrent, Id!Started, Id!Scheduled, Id!NoTimers
  <2> QED BY <1>0, <2>2, <2>4 DEF IdentityInv
<1>4. CASE Id!TransportStarts
  <2>1. identityActive /\ identityTransport' = TRUE
        /\ UNCHANGED <<bindings, settings, identityNodes, local, identityActive, timers, identityDeploy, identityEdits, sent>>
    BY <1>4 DEF Id!TransportStarts
  <2> QED BY <1>0, <2>1 DEF IdentityInv, DeployReconciled, Id!Collides, Id!Attached, SentAreTruthful, Truthful, TimersNeedTransport,
                      Id!HeartbeatsCurrent, Id!Started, Id!Scheduled, Id!NoTimers
<1>5. CASE Id!TransportUp
  <2>1. identityTransport /\ timers' = Id!Started(timers, local, identityNodes)
        /\ UNCHANGED <<bindings, settings, identityNodes, local, identityActive, identityTransport, identityDeploy, identityEdits, sent>>
    BY <1>5 DEF Id!TransportUp
  <2>2. DeployReconciled' /\ SentAreTruthful' /\ TimersNeedTransport'
    BY <2>1 DEF IdentityInv, DeployReconciled, Id!Collides, Id!Attached, SentAreTruthful, Truthful, TimersNeedTransport
  <2>3. identityDeploy = "done" => timers' = Id!Started(Id!NoTimers, identityNodes[Id!Default], identityNodes)
    <3>1. identityDeploy = "done" => local = identityNodes[Id!Default]
      BY <2>1 DEF IdentityInv, DeployReconciled, TimersNeedTransport
    <3>2. identityDeploy = "done" => timers = Id!NoTimers \/ timers = Id!Started(Id!NoTimers, identityNodes[Id!Default], identityNodes)
      BY DEF IdentityInv, Id!HeartbeatsCurrent
    <3> QED BY <2>1, <3>1, <3>2, StartedTwice
  <2>4. Id!HeartbeatsCurrent'
    BY <2>1, <2>3 DEF Id!HeartbeatsCurrent, Id!Started, Id!Scheduled
  <2> QED BY <1>0, <2>2, <2>4 DEF IdentityInv
<1>6. ASSUME NEW id \in Ids, Id!Send(id, Id!Source(id)) \/ Id!HeartbeatTick(id)
      PROVE  IdentityInv'
  BY <1>6, SendKeeps DEF Id!HeartbeatTick
<1>7. CASE Id!Send(Id!Default, Id!DefaultSource)
  BY <1>7, SendKeeps
<1>8. CASE UNCHANGED Id!vars
  BY <1>0, <1>8 DEF Id!vars, IdentityInv, DeployReconciled, Id!Collides, Id!Attached, SentAreTruthful, Truthful, TimersNeedTransport,
              Id!HeartbeatsCurrent, Id!Started, Id!Scheduled, Id!NoTimers
<1> QED BY <1>1, <1>2, <1>3, <1>4, <1>5, <1>6, <1>7, <1>8 DEF Id!Next

\* Of the frames sent after a deploy no two of different identities carry one
\* source, and none of one identity two.
LEMMA IdentityDistinct == ASSUME IdentityInv PROVE Id!SourcesDistinct
<1> SUFFICES ASSUME identityDeploy = "done", NEW f \in sent, NEW g \in sent
             PROVE  (f[1] = g[1]) <=> (f[2] = g[2])
  BY DEF Id!SourcesDistinct
<1>1. Truthful(f) /\ Truthful(g) /\ identityActive
  BY DEF IdentityInv, SentAreTruthful
<1>2. ~Id!Collides(identityNodes[Id!Default], identityNodes)
  BY <1>1 DEF IdentityInv, DeployReconciled
<1>3. f[1] # g[1] => identityNodes[f[1]].wire # identityNodes[g[1]].wire
  BY <1>1, <1>2 DEF Id!Collides, Truthful
<1> QED BY <1>1, <1>3 DEF Truthful

\* A binding that is the only one of its identity decides.
LEMMA OnlyBinding ==
  ASSUME DOMAIN bindings \subseteq Nat, NEW k \in DOMAIN bindings,
         \A j \in DOMAIN bindings : bindings[j].identity = bindings[k].identity => j = k
  PROVE  Id!BindingFor(bindings[k].identity) = bindings[k]
<1> DEFINE matching == {j \in DOMAIN bindings : bindings[j].identity = bindings[k].identity}
<1>1. matching = {k} /\ k \in Nat
  OBVIOUS
<1>2. (CHOOSE i \in matching : \A j \in matching : i <= j) = k
  BY <1>1
<1> QED BY <1>1, <1>2 DEF Id!BindingFor

\* Every timer that runs after a deploy can transmit.
LEMMA IdentityPermitted == ASSUME IdentityInv PROVE Id!HeartbeatsPermitted
<1> SUFFICES ASSUME \A j, k \in DOMAIN bindings : bindings[j].identity = bindings[k].identity => j = k,
                    NEW i \in Ids, timers[i] # Id!Absent, identityNodes[i].valid, identityDeploy = "done"
             PROVE  Id!Source(i) # 0
  BY DEF Id!HeartbeatsPermitted
<1>1. timers # Id!NoTimers
  BY DEF Id!NoTimers
<1>2. identityActive
  BY <1>1 DEF IdentityInv, TimersNeedTransport
<1>3. timers = Id!Started(Id!NoTimers, identityNodes[Id!Default], identityNodes)
  BY <1>1 DEF IdentityInv, Id!HeartbeatsCurrent
<1>4. i \in Id!Scheduled(identityNodes[Id!Default], identityNodes)
  BY <1>3 DEF Id!Started, Id!NoTimers
<1>5. Id!Permitted(i)
  <2>1. CASE i = Id!Default
    BY <2>1 DEF Id!Permitted
  <2>2. CASE i # Id!Default
    <3>1. PICK k \in DOMAIN bindings : /\ bindings[k].identity = i
                                       /\ settings.allowMultiple /\ bindings[k].allowOutbound
      BY <1>4, <2>2 DEF Id!Scheduled
    <3>2. Id!BindingFor(i) = bindings[k]
      BY <3>1, OnlyBinding DEF IdentityInv, IdentitiesTyped
    <3> QED BY <3>1, <3>2 DEF Id!Permitted
  <2> QED BY <2>1, <2>2
<1>6. identityNodes[i] \in Id!Nodes
  BY DEF IdentityInv, IdentitiesTyped, Id!Absent
<1>7. identityNodes[i].wire # 0
  BY <1>6, PartsAssumption DEF Id!Nodes
<1> QED BY <1>2, <1>5, <1>7 DEF Id!Source, IdentityInv, DeployReconciled

\* For any list of bindings: the frames sent after a deploy do not transmit
\* ambiguously, and the running heartbeat timers are those of the present
\* schedules and identities and can transmit.
THEOREM SendersDistinct ==
  Id!Spec => [](Id!SourcesDistinct /\ Id!HeartbeatsCurrent /\ Id!HeartbeatsPermitted)
<1>1. IdentityInv => Id!SourcesDistinct /\ Id!HeartbeatsCurrent /\ Id!HeartbeatsPermitted
  BY IdentityDistinct, IdentityPermitted DEF IdentityInv
<1>2. IdentityInv /\ [Id!Next]_(Id!vars) => IdentityInv'
  BY IdentityNext, PartsAssumption DEF Id!Default
<1> QED BY IdentityInit, <1>1, <1>2, PTL DEF Id!Spec

\* The same of the identities among the parts of a connection.
THEOREM PartsSendersDistinct == PartsSpec => []SourcesDistinct
<1>1. PartsInit => IdentityInv
  <2> SUFFICES ASSUME PartsInit PROVE IdentityInv
    OBVIOUS
  <2>1. CASE kind = "identities"
    <3>1. PICK b \in Bindings, s \in [allowMultiple : {TRUE}, heartbeat : BOOLEAN], r \in IdentityNodes :
            Id!Start(b, s, r)
      BY <2>1 DEF PartsInit
    <3>2. DOMAIN b \subseteq Nat
      BY DEF Bindings
    <3>3. r \in [Ids -> Id!Nodes \cup {Id!Absent}]
      BY DEF IdentityNodes
    <3> QED BY <3>1, <3>2, <3>3, IdentityStart
  <2>2. CASE kind # "identities"
    <3>1. Id!Start(<<>>, [allowMultiple |-> FALSE, heartbeat |-> FALSE], [i \in Ids |-> Id!Absent])
      BY <2>2 DEF PartsInit
    <3>2. DOMAIN <<>> \subseteq Nat
      OBVIOUS
    <3> QED BY <3>1, <3>2, IdentityStart
  <2> QED BY <2>1, <2>2
<1>2. ASSUME [PartsNext]_parts PROVE [Id!Next]_(Id!vars)
  BY <1>2 DEF PartsNext, parts, identityVars, Id!vars
<1>3. IdentityInv /\ [PartsNext]_parts => IdentityInv'
  BY <1>2, IdentityNext, PartsAssumption DEF Id!Default
<1>4. IdentityInv => SourcesDistinct
  BY IdentityDistinct, IdentityPermitted DEF IdentityInv, SourcesDistinct
<1> QED BY <1>1, <1>3, <1>4, PTL DEF PartsSpec

-----------------------------------------------------------------------------
(* Replay trackers.  For every number of streams and keys, every window    *)
(* and every size of the table, a frame is let through once.               *)

\* What the tracker of a key holds of each stream it knows.
Trackers == UNION {[S -> Nat] : S \in SUBSET Streams}

\* The tables hold times of streams, and the history what was let through.
TrackersTyped ==
  /\ key \in SigningKeys
  /\ clock \in Nat
  /\ max \in [SigningKeys -> Trackers]
  /\ maxAccepted \in [SigningKeys -> Nat]
  /\ accepted \subseteq SigningKeys \X Streams \X Nat

\* No tracker forgets: a stream of which a frame was let through is known, at
\* that time or a later one.
Remembered ==
  \A k \in SigningKeys, s \in Streams, t \in Nat :
    <<k, s, t>> \in accepted => s \in DOMAIN max[k] /\ t <= max[k][s]

\* _maxAccepted is no older than anything let through under its key.
NewestKnown == \A f \in accepted : f[3] <= maxAccepted[f[1]]

TrackerInv == TrackersTyped /\ Remembered /\ NewestKnown

-----------------------------------------------------------------------------
\* A table extended by one frame is a table of times.
LEMMA ExtendedTable ==
  ASSUME NEW m \in Trackers, NEW s \in Streams, NEW ts \in Nat
  PROVE  [x \in DOMAIN m \cup {s} |-> IF x = s THEN ts ELSE m[x]] \in Trackers
<1> DEFINE n == [x \in DOMAIN m \cup {s} |-> IF x = s THEN ts ELSE m[x]]
<1>1. PICK S \in SUBSET Streams : m \in [S -> Nat]
  BY DEF Trackers
<1>2. DOMAIN m = S
  BY <1>1
<1>3. n \in [S \cup {s} -> Nat]
  BY <1>1, <1>2
<1>4. S \cup {s} \in SUBSET Streams
  BY <1>1
<1> QED BY <1>3, <1>4 DEF Trackers

\* A known stream has a time.
LEMMA KnownTime ==
  ASSUME NEW m \in Trackers, NEW s \in DOMAIN m
  PROVE  m[s] \in Nat
BY DEF Trackers

LEMMA TrackerStart == ASSUME NEW k \in SigningKeys, Replay!Start(k) PROVE TrackerInv
<1>1. [s \in {} |-> 0] \in Trackers
  <2>1. [s \in {} |-> 0] \in [{} -> Nat]
    OBVIOUS
  <2> QED BY <2>1 DEF Trackers
<1>2. TrackersTyped
  BY <1>1 DEF Replay!Start, TrackersTyped
<1>3. Remembered
  BY DEF Replay!Start, Remembered
<1>4. NewestKnown
  BY DEF Replay!Start, NewestKnown
<1> QED BY <1>2, <1>3, <1>4 DEF TrackerInv

LEMMA TrackerInit == Replay!Init => TrackerInv
BY TrackerStart DEF Replay!Init

\* The step that lets a frame through, by what it does to the tables.
LEMMA CheckKeeps ==
  ASSUME TrackerInv, NEW s \in Streams, NEW ts \in Nat, Replay!Check(s, ts)
  PROVE  TrackerInv'
<1> DEFINE m == max[key]
           n == [x \in DOMAIN m \cup {s} |-> IF x = s THEN ts ELSE m[x]]
<1> USE DEF TrackerInv
<1>1. /\ max' = [max EXCEPT ![key] = n]
      /\ maxAccepted' = [maxAccepted EXCEPT ![key] = Replay!Max2(maxAccepted[key], ts)]
      /\ accepted' = accepted \cup {<<key, s, ts>>}
      /\ key' = key /\ clock' = clock
  BY DEF Replay!Check, Replay!Record
<1>2. m \in Trackers /\ key \in SigningKeys
  BY DEF TrackersTyped
<1>3. n \in Trackers
  BY <1>2, ExtendedTable
<1>4. TrackersTyped'
  <2>1. Replay!Max2(maxAccepted[key], ts) \in Nat
    BY <1>2 DEF TrackersTyped, Replay!Max2
  <2> HIDE DEF m, n
  <2> QED BY <1>1, <1>2, <1>3, <2>1 DEF TrackersTyped
<1>5. Remembered'
  <2> SUFFICES ASSUME NEW k \in SigningKeys, NEW x \in Streams, NEW t \in Nat,
                      <<k, x, t>> \in accepted'
               PROVE  x \in DOMAIN max'[k] /\ t <= max'[k][x]
    BY DEF Remembered
  <2>1. CASE k # key
    <3>1. <<k, x, t>> \in accepted
      BY <1>1, <2>1
    <3>2. max'[k] = max[k]
      BY <1>1, <2>1 DEF TrackersTyped
    <3> QED BY <3>1, <3>2 DEF Remembered
  <2>2. CASE k = key
    <3>1. max'[k] = n
      BY <1>1, <2>2 DEF TrackersTyped
    <3>2. CASE <<k, x, t>> \in accepted
      <4>1. x \in DOMAIN m /\ t <= m[x]
        BY <2>2, <3>2 DEF Remembered
      <4>2. x = s => m[s] \in Nat /\ ts > m[s]
        BY <1>2, <4>1, KnownTime DEF Replay!Check, Replay!Known, Replay!Advances
      <4>3. m[x] \in Nat
        BY <1>2, <4>1, KnownTime
      <4> QED BY <3>1, <4>1, <4>2, <4>3
    <3>3. CASE <<k, x, t>> \notin accepted
      <4>1. x = s /\ t = ts
        BY <1>1, <3>3
      <4> QED BY <3>1, <4>1
    <3> QED BY <3>2, <3>3
  <2> QED BY <2>1, <2>2
<1>6. NewestKnown'
  <2>1. maxAccepted[key] \in Nat /\ ts \in Nat
    BY <1>2 DEF TrackersTyped
  <2>2. ASSUME NEW f \in accepted' PROVE f[3] <= maxAccepted'[f[1]]
    <3>1. CASE f \in accepted
      <4>1. f[1] \in SigningKeys /\ f[3] \in Nat /\ f[3] <= maxAccepted[f[1]] /\ maxAccepted[f[1]] \in Nat
        BY <3>1 DEF TrackersTyped, NewestKnown
      <4> QED BY <1>1, <1>2, <2>1, <4>1 DEF TrackersTyped, Replay!Max2
    <3>2. CASE f = <<key, s, ts>>
      BY <1>1, <1>2, <2>1, <3>2 DEF TrackersTyped, Replay!Max2
    <3> QED BY <1>1, <2>2, <3>1, <3>2
  <2> QED BY <2>2 DEF NewestKnown
<1> QED BY <1>4, <1>5, <1>6

\* A change of the key or of the clock keeps every tracker.
LEMMA TrackerNext ==
  ASSUME TrackerInv, [Replay!Next]_(Replay!vars)
  PROVE  TrackerInv'
<1>1. CASE \E s \in Streams, ts \in 0..MaxTime : Replay!Check(s, ts)
  <2>1. PICK s \in Streams : \E ts \in 0..MaxTime : Replay!Check(s, ts)
    BY <1>1
  <2>2. PICK ts \in 0..MaxTime : Replay!Check(s, ts)
    BY <2>1
  <2>3. ts \in Nat
    BY PartsAssumption
  <2> QED BY <2>2, <2>3, CheckKeeps
<1>2. CASE \E k \in SigningKeys : Replay!Rekey(k)
  BY <1>2 DEF TrackerInv, Replay!Rekey, TrackersTyped, Remembered, NewestKnown
<1>3. CASE Replay!ClockTicks
  BY <1>3 DEF TrackerInv, Replay!ClockTicks, TrackersTyped, Remembered, NewestKnown
<1>4. CASE UNCHANGED Replay!vars
  BY <1>4 DEF TrackerInv, Replay!vars, TrackersTyped, Remembered, NewestKnown
<1> QED BY <1>1, <1>2, <1>3, <1>4 DEF Replay!Next

\* "A bounded table that never forgets": every tracker remembers the latest of
\* what it let through, whatever keys come and go.
THEOREM TrackersRemember == Replay!Spec => []TrackerInv
<1>1. TrackerInv /\ [Replay!Next]_(Replay!vars) => TrackerInv'
  BY TrackerNext
<1> QED BY TrackerInit, <1>1, PTL DEF Replay!Spec

\* What the trackers remember keeps frames out that were let through before, ...
LEMMA RememberedKeepsOut ==
  ASSUME TrackerInv, NEW k \in SigningKeys, NEW s \in Streams, NEW ts \in 0..MaxTime,
         key = k, Replay!Check(s, ts), NEW t \in ts..MaxTime
  PROVE  <<k, s, t>> \notin accepted
<1> SUFFICES ASSUME <<k, s, t>> \in accepted PROVE FALSE
  OBVIOUS
<1>0. ts \in Nat /\ t \in Nat /\ ts <= t
  BY PartsAssumption
<1>1. s \in DOMAIN max[k] /\ t <= max[k][s]
  BY <1>0 DEF TrackerInv, Remembered
<1>2. max[k][s] \in Nat
  BY <1>1, KnownTime DEF TrackerInv, TrackersTyped
<1>3. ts > max[k][s]
  BY <1>1 DEF Replay!Check, Replay!Known, Replay!Advances
<1> QED BY <1>0, <1>1, <1>2, <1>3

\* ... and a stream is opened by a frame that is fresh.
LEMMA OpenedFresh ==
  ASSUME TrackerInv, [Replay!Next]_(Replay!vars), NEW s \in Streams, NEW other \in accepted,
         key' = key, Replay!Opened(s), other[1] = key
  PROVE  max'[key][s] + Window >= other[3]
<1>1. PICK x \in Streams : \E ts \in 0..MaxTime : Replay!Check(x, ts)
  BY DEF Replay!Next, Replay!Rekey, Replay!ClockTicks, Replay!vars, Replay!Opened, Replay!Known
<1>2. PICK ts \in 0..MaxTime : Replay!Check(x, ts)
  BY <1>1
<1>3. ts \in Nat /\ Window \in Nat
  BY PartsAssumption
<1> DEFINE n == [y \in DOMAIN max[key] \cup {x} |-> IF y = x THEN ts ELSE max[key][y]]
<1>4. max'[key] = n
  BY <1>2 DEF Replay!Check, Replay!Record, TrackerInv, TrackersTyped
<1>5. s = x /\ max'[key][s] = ts
  BY <1>4 DEF Replay!Opened, Replay!Known
<1>6. Replay!Fresh(ts)
  BY <1>2, <1>5 DEF Replay!Check, Replay!Opened
<1>7. maxAccepted[key] \in Nat /\ clock \in Nat /\ other[3] \in Nat /\ other[3] <= maxAccepted[key]
  BY DEF TrackerInv, TrackersTyped, NewestKnown
<1> QED BY <1>3, <1>5, <1>6, <1>7 DEF Replay!Fresh, Replay!Reference, Replay!Max2

\* No frame is let through again, nor an older one of its stream, after any
\* changes of the key and with a full table; and no stream is opened by a frame
\* that is older than what was let through by more than the window, however
\* slow the receiver's clock is.
THEOREM NeverReplayed == Replay!Spec => Replay!NoReplay /\ Replay!FreshlyOpened
<1>1. TrackerInv => \A k \in SigningKeys, s \in Streams, ts \in 0..MaxTime :
        (key = k /\ Replay!Check(s, ts)) => \A t \in ts..MaxTime : <<k, s, t>> \notin accepted
  BY RememberedKeepsOut
<1>2. TrackerInv /\ [Replay!Next]_(Replay!vars) => \A s \in Streams, other \in accepted :
        (key' = key /\ Replay!Opened(s) /\ other[1] = key) => max'[key][s] + Window >= other[3]
  BY OpenedFresh
<1> QED BY <1>1, <1>2, TrackersRemember, PTL DEF Replay!NoReplay, Replay!FreshlyOpened, Replay!Spec

\* The same of the trackers among the parts of a connection.
THEOREM PartsNeverReplay == PartsSpec => NoReplay
<1>1. PartsInit => TrackerInv
  <2>1. (CHOOSE k \in SigningKeys : TRUE) \in SigningKeys
    BY PartsAssumption
  <2> QED BY <2>1, TrackerInit, TrackerStart DEF PartsInit
<1>2. ASSUME [PartsNext]_parts PROVE [Replay!Next]_(Replay!vars)
  BY <1>2 DEF PartsNext, parts, replayVars, Replay!vars
<1>3. TrackerInv /\ [PartsNext]_parts => TrackerInv'
  BY <1>2, TrackerNext
<1>4. TrackerInv => \A k \in SigningKeys, s \in Streams, ts \in 0..MaxTime :
        (key = k /\ Replay!Check(s, ts)) => \A t \in ts..MaxTime : <<k, s, t>> \notin accepted
  BY RememberedKeepsOut
<1>5. TrackerInv /\ [PartsNext]_parts => \A s \in Streams, other \in accepted :
        (key' = key /\ Replay!Opened(s) /\ other[1] = key) => max'[key][s] + Window >= other[3]
  BY <1>2, OpenedFresh
<1> QED BY <1>1, <1>3, <1>4, <1>5, PTL DEF PartsSpec, NoReplay, Replay!NoReplay, Replay!FreshlyOpened

-----------------------------------------------------------------------------
(* Routes.  For any table of routes: a broadcast workflow is accepted       *)
(* exactly when some component of the system can answer it.                 *)

RoutesTyped ==
  /\ DOMAIN routes \subseteq Nat
  /\ \A i \in DOMAIN routes : routes[i] \in Route!RouteEntries
  /\ acceptedCompids \subseteq Route!Named \cup {0}

\* The decision is the one for the present address.
RouterInv ==
  /\ RoutesTyped
  /\ target[1] # 0 =>
       /\ target[1] \in RemoteSysids /\ target[2] \in RemoteCompids \cup {0}
       /\ decision = Route!RouteWorkflowTarget(target[1], target[2])

\* A component that a route may name, and one that none names.
LEMMA NamedAndFree ==
  /\ \E c \in RemoteCompids : Route!Named = {c}
  /\ \E c \in RemoteCompids : c \notin Route!Named
  /\ 0 \notin RemoteCompids /\ 256 \notin RemoteCompids
<1>1. (CHOOSE c \in RemoteCompids : TRUE) \in RemoteCompids
  BY PartsAssumption
<1>2. 0 \notin RemoteCompids /\ 256 \notin RemoteCompids
  BY PartsAssumption
<1> QED BY <1>1, <1>2, PartsAssumption DEF Route!Named

LEMMA LeastNumber ==
  ASSUME NEW S \in SUBSET Nat, S # {} PROVE \E n \in S : \A k \in S : n <= k
<1>1. PICK n \in S : \A k \in S : ~(<<k, n>> \in OpToRel(<, Nat))
  BY NatLessThanWellFounded, WFMin, Zenon
<1>2. \A k \in S : ~(k < n)
  BY <1>1, Zenon DEF OpToRel
<1> QED BY <1>2

LEMMA SpecificityRange == ASSUME NEW r PROVE Route!Specificity(r) \in 0..3
BY DEF Route!Specificity

\* The order of the table is total, so that a set of routes has a first one.
LEMMA EarlierTotal ==
  ASSUME NEW i \in Nat, NEW j \in Nat, i # j PROVE Route!Earlier(i, j) <=> ~Route!Earlier(j, i)
<1>1. Route!Specificity(routes[i]) \in Int /\ Route!Specificity(routes[j]) \in Int
  BY SpecificityRange
<1> QED BY <1>1 DEF Route!Earlier

LEMMA FirstOfRoutes ==
  ASSUME NEW S \in SUBSET Nat, S # {}
  PROVE  /\ Route!First(S) \in S
         /\ \A j \in S \ {Route!First(S)} : Route!Earlier(Route!First(S), j) /\ ~Route!Earlier(j, Route!First(S))
<1> DEFINE away(i) == 3 - Route!Specificity(routes[i])
           ranks == {away(i) : i \in S}
<1>1. \A i \in S : away(i) \in Nat /\ Route!Specificity(routes[i]) \in Int
  BY SpecificityRange
<1>2. PICK m \in ranks : \A k \in ranks : m <= k
  <2>1. ranks \in SUBSET Nat /\ ranks # {}
    BY <1>1
  <2> QED BY <2>1, LeastNumber
<1> DEFINE best == {i \in S : away(i) = m}
<1>3. PICK n \in best : \A k \in best : n <= k
  <2>1. best \in SUBSET Nat /\ best # {}
    BY <1>2
  <2> HIDE DEF best
  <2> QED BY <2>1, LeastNumber
<1>4. \A j \in S \ {n} : Route!Earlier(n, j)
  <2> SUFFICES ASSUME NEW j \in S, j # n PROVE Route!Earlier(n, j)
    OBVIOUS
  <2>1. away(n) <= away(j) /\ n \in S /\ (away(j) = away(n) => n <= j)
    BY <1>2, <1>3
  <2> QED BY <1>1, <2>1 DEF Route!Earlier
<1>5. Route!First(S) \in S /\ \A j \in S \ {Route!First(S)} : Route!Earlier(Route!First(S), j)
  BY <1>3, <1>4 DEF Route!First
<1> QED BY <1>5, EarlierTotal

Matching(s, c) ==
  {i \in DOMAIN routes : Route!Covers(routes[i].sysid, s) /\ Route!Covers(routes[i].compid, c)}

\* What a route of the table names.
LEMMA RouteNames ==
  ASSUME RoutesTyped, NEW i \in DOMAIN routes
  PROVE  i \in Nat /\ routes[i].compid \in Route!Named \cup {0, 256}
BY DEF RoutesTyped, Route!RouteEntries, Route!Any

\* The first route that matches a component decides for it.
LEMMA RouteByMatch ==
  ASSUME RoutesTyped, mode = "routed", NEW s, NEW c
  PROVE  /\ Matching(s, c) = {} => Route!Route(s, c) = Route!Unmatched
         /\ Matching(s, c) # {} =>
              /\ Route!First(Matching(s, c)) \in Matching(s, c)
              /\ \A j \in Matching(s, c) : ~Route!Earlier(j, Route!First(Matching(s, c))) \/ j = Route!First(Matching(s, c))
              /\ Route!Route(s, c) = IF Route!Usable(Route!First(Matching(s, c)))
                                     THEN Route!Accept(routes[Route!First(Matching(s, c))].profile)
                                     ELSE Route!None
<1>1. Matching(s, c) \in SUBSET Nat
  BY DEF Matching, RoutesTyped
<1>2. Route!Route(s, c) = IF Matching(s, c) = {} THEN Route!Unmatched
                          ELSE IF Route!Usable(Route!First(Matching(s, c)))
                               THEN Route!Accept(routes[Route!First(Matching(s, c))].profile) ELSE Route!None
  BY DEF Route!Route, Matching
<1> QED BY <1>1, <1>2, FirstOfRoutes

\* The routes that match a component are responder routes, for it or for all.
LEMMA MatchingResponds ==
  ASSUME NEW s, NEW c \in RemoteCompids
  PROVE  Matching(s, c) = {i \in Route!ResponderRoutes(s) : routes[i].compid \in {256, c}}
BY NamedAndFree DEF Matching, Route!ResponderRoutes, Route!Covers, Route!Any

\* Where the scan may end; a wildcard for all components always ends it.
LEMMA EndsMembers ==
  ASSUME NEW s, NEW i \in Route!ResponderRoutes(s)
  PROVE  /\ routes[i].compid = 256 => i \in Route!Ends(s)
         /\ i \in Route!Ends(s) <=> ~Route!Shadowed(s, i) /\ (Route!Usable(i) \/ routes[i].compid = 256)
BY DEF Route!Ends, Route!Shadowed, Route!Any

\* A usable route that is first for its component is not shadowed.
LEMMA FirstUnshadowed ==
  ASSUME RoutesTyped, NEW s, NEW c \in RemoteCompids, NEW m \in Matching(s, c),
         \A j \in Matching(s, c) : ~Route!Earlier(j, m) \/ j = m
  PROVE  ~Route!Shadowed(s, m)
<1> SUFFICES ASSUME routes[m].compid # 256,
                    NEW j \in Route!ResponderRoutes(s), Route!Earlier(j, m), ~Route!Usable(j),
                    routes[j].compid = routes[m].compid
             PROVE  FALSE
  BY DEF Route!Shadowed, Route!Any
<1>1. j \in Matching(s, c) /\ m \in Nat
  BY MatchingResponds DEF Matching, RoutesTyped
<1>2. j = m
  BY <1>1
<1>3. Route!Specificity(routes[m]) \in Int
  BY SpecificityRange
<1> QED BY <1>1, <1>2, <1>3 DEF Route!Earlier

\* No route ends the scan: components without a route are unmatched, and the
\* others are left to broken routes.
LEMMA NoEnd ==
  ASSUME RoutesTyped, mode = "routed", NEW s, Route!Ends(s) = {}
  PROVE  /\ \E c \in RemoteCompids : Route!Route(s, c) = Route!Unmatched
         /\ \A c \in RemoteCompids : Route!Route(s, c) \in {Route!Unmatched, Route!None}
<1>1. \A i \in Route!ResponderRoutes(s) : routes[i].compid # 256
  BY EndsMembers
<1>2. PICK f \in RemoteCompids : f \notin Route!Named
  BY NamedAndFree
<1>3. Matching(s, f) = {}
  <2> SUFFICES ASSUME NEW i \in Matching(s, f) PROVE FALSE
    OBVIOUS
  <2>1. i \in Route!ResponderRoutes(s) /\ routes[i].compid \in {256, f}
    BY MatchingResponds
  <2>2. routes[i].compid \in Route!Named \cup {0, 256}
    BY RouteNames DEF Matching
  <2> QED BY <1>1, <1>2, <2>1, <2>2, NamedAndFree
<1>4. Route!Route(s, f) = Route!Unmatched
  BY <1>3, RouteByMatch
<1>5. ASSUME NEW c \in RemoteCompids PROVE Route!Route(s, c) \in {Route!Unmatched, Route!None}
  <2>1. CASE Matching(s, c) = {}
    BY <2>1, RouteByMatch
  <2>2. CASE Matching(s, c) # {}
    <3> DEFINE m == Route!First(Matching(s, c))
    <3>1. m \in Matching(s, c) /\ \A j \in Matching(s, c) : ~Route!Earlier(j, m) \/ j = m
      BY <2>2, RouteByMatch
    <3>2. Route!Route(s, c) = IF Route!Usable(m) THEN Route!Accept(routes[m].profile) ELSE Route!None
      BY <2>2, RouteByMatch
    <3> HIDE DEF m
    <3>3. m \in Route!ResponderRoutes(s)
      BY <3>1, MatchingResponds
    <3>4. ~Route!Usable(m)
      BY <3>1, <3>3, FirstUnshadowed, EndsMembers
    <3> QED BY <3>2, <3>4
  <2> QED BY <2>1, <2>2
<1> QED BY <1>4, <1>5

\* The first route that ends the scan is the one that decides for a component.
LEMMA EndDecides ==
  ASSUME RoutesTyped, mode = "routed", NEW s, NEW e \in Route!Ends(s),
         \A j \in Route!Ends(s) : ~Route!Earlier(j, e) \/ j = e,
         NEW c \in RemoteCompids, e \in Matching(s, c),
         routes[e].compid # 256 \/ ~Route!Usable(e) \/ c \notin Route!Named
  PROVE  IF Route!Usable(e) THEN Route!Route(s, c) = Route!Accept(routes[e].profile)
                            ELSE Route!Route(s, c) = Route!None
<1> DEFINE m == Route!First(Matching(s, c))
<1>1. m \in Matching(s, c) /\ \A j \in Matching(s, c) : ~Route!Earlier(j, m) \/ j = m
  BY RouteByMatch
<1>2. Route!Route(s, c) = IF Route!Usable(m) THEN Route!Accept(routes[m].profile) ELSE Route!None
  BY RouteByMatch
<1> HIDE DEF m
<1>3. m \in Route!ResponderRoutes(s) /\ routes[m].compid \in {256, c} /\ ~Route!Shadowed(s, m)
  BY <1>1, MatchingResponds, FirstUnshadowed
<1>4. e \in Route!ResponderRoutes(s) /\ routes[e].compid \in {256, c} /\ ~Route!Shadowed(s, e)
  BY MatchingResponds, EndsMembers DEF Route!Ends
<1>5. e = m \/ Route!Earlier(m, e)
  <2>1. e \in Nat /\ m \in Nat
    BY <1>1, RouteNames DEF Matching
  <2> QED BY <1>1, <2>1, EarlierTotal
<1>6. CASE e = m
  BY <1>2, <1>6
<1>7. CASE e # m
  <2>1. Route!Earlier(m, e) /\ m \notin Route!Ends(s)
    BY <1>5, <1>7
  <2>2. ~Route!Usable(m) /\ routes[m].compid # 256
    BY <1>3, <2>1, EndsMembers
  <2>3. routes[m].compid = c /\ c \in Route!Named
    BY <1>1, <1>3, <2>2, RouteNames, NamedAndFree DEF Matching
  <2>4. CASE routes[e].compid = 256
    BY <1>2, <2>2, <2>3, <2>4
  <2>5. CASE routes[e].compid # 256
    <3>1. Route!Shadowed(s, e)
      BY <1>3, <1>4, <2>1, <2>2, <2>3, <2>5 DEF Route!Shadowed, Route!Any
    <3> QED BY <1>4, <3>1
  <2> QED BY <2>4, <2>5
<1> QED BY <1>6, <1>7
\* A broadcast in routed mode is decided for the component that answers it.
LEMMA RoutedDecision ==
  ASSUME RoutesTyped, mode = "routed", NEW s \in RemoteSysids
  PROVE  LET answers == {Route!Route(s, c) : c \in RemoteCompids} \ {Route!None}
             made == Route!RouteWorkflowTarget(s, 0)
         IN  IF made.accepted THEN made \in answers ELSE answers = {}
<1> DEFINE answers == {Route!Route(s, c) : c \in RemoteCompids} \ {Route!None}
           made == Route!RouteWorkflowTarget(s, 0)
           e == Route!First(Route!Ends(s))
<1>1. made = IF Route!Ends(s) = {} THEN Route!Unmatched
             ELSE IF Route!Usable(e) THEN Route!Accept(routes[e].profile) ELSE Route!None
  BY DEF Route!RouteWorkflowTarget
<1>2. \A p : Route!Accept(p).accepted /\ Route!Accept(p) # Route!None
  BY DEF Route!Accept, Route!None
<1>3. ~Route!None.accepted
  BY DEF Route!None
<1>4. CASE Route!Ends(s) = {}
  <2>1. Route!Unmatched = Route!None \/ (Route!Unmatched.accepted /\ Route!Unmatched # Route!None)
    BY <1>2 DEF Route!Unmatched
  <2> QED BY <1>1, <1>3, <1>4, <2>1, NoEnd
<1>5. CASE Route!Ends(s) # {}
  <2>1. e \in Route!Ends(s) /\ \A j \in Route!Ends(s) : ~Route!Earlier(j, e) \/ j = e
    <3>1. Route!Ends(s) \in SUBSET Nat
      BY DEF Route!Ends, Route!ResponderRoutes, RoutesTyped
    <3> QED BY <1>5, <3>1, FirstOfRoutes
  <2> HIDE DEF e
  <2>2. /\ e \in Route!ResponderRoutes(s) /\ e \in DOMAIN routes
        /\ routes[e].compid \in Route!Named \cup {256}
    BY <2>1, RouteNames DEF Route!Ends, Route!ResponderRoutes
  <2>3. CASE Route!Usable(e)
    <3>1. PICK c \in RemoteCompids : IF routes[e].compid = 256 THEN c \notin Route!Named ELSE c = routes[e].compid
      BY <2>2, NamedAndFree
    <3>2. e \in Matching(s, c)
      BY <2>2, <3>1, MatchingResponds
    <3>3. Route!Route(s, c) = Route!Accept(routes[e].profile)
      BY <2>1, <2>3, <3>1, <3>2, EndDecides
    <3>4. made = Route!Accept(routes[e].profile)
      BY <1>1, <1>5, <2>3
    <3> QED BY <1>2, <3>3, <3>4
  <2>4. CASE ~Route!Usable(e)
    <3>1. routes[e].compid = 256
      BY <2>1, <2>4 DEF Route!Ends, Route!Any
    <3>2. \A c \in RemoteCompids : e \in Matching(s, c)
      BY <2>2, <3>1, MatchingResponds
    <3>3. \A c \in RemoteCompids : Route!Route(s, c) = Route!None
      BY <2>1, <2>4, <3>2, EndDecides
    <3>4. made = Route!None
      BY <1>1, <1>5, <2>4
    <3> QED BY <1>3, <3>3, <3>4
  <2> QED BY <2>3, <2>4
<1> QED BY <1>4, <1>5

\* In single-profile mode the two lists of accepted ids decide.
LEMMA SingleDecision ==
  ASSUME RoutesTyped, mode # "routed", NEW s \in RemoteSysids
  PROVE  LET answers == {Route!Route(s, c) : c \in RemoteCompids} \ {Route!None}
             made == Route!RouteWorkflowTarget(s, 0)
         IN  IF made.accepted THEN made \in answers ELSE answers = {}
<1>1. \A c : Route!Route(s, c) = IF /\ Route!IdAccepted(s, acceptedSysids)
                                    /\ Route!IdAccepted(c, acceptedCompids)
                                 THEN Route!Accept("default") ELSE Route!None
  BY DEF Route!Route
<1>2. Route!RouteWorkflowTarget(s, 0) =
        IF /\ Route!IdAccepted(s, acceptedSysids)
           /\ \E c \in RemoteCompids : Route!IdAccepted(c, acceptedCompids)
        THEN Route!Accept("default") ELSE Route!None
  <2>1. acceptedCompids = {} \/ acceptedCompids # {0}
        <=> \E c \in RemoteCompids : Route!IdAccepted(c, acceptedCompids)
    BY NamedAndFree DEF Route!IdAccepted, RoutesTyped
  <2> QED BY <2>1 DEF Route!RouteWorkflowTarget
<1>3. Route!Accept("default").accepted /\ Route!Accept("default") # Route!None /\ ~Route!None.accepted
  BY DEF Route!Accept, Route!None
<1> QED BY <1>1, <1>2, <1>3

LEMMA RouterStart ==
  ASSUME Route!Init \/ Route!Start("routed", "default", <<>>, {}, {})
  PROVE  RouterInv
<1>1. target[1] = 0
  BY DEF Route!Init, Route!Start
<1>2. RoutesTyped
  <2>1. \/ \E table \in Route!Tables : routes = table /\ acceptedCompids = {}
        \/ routes = <<>> /\ acceptedCompids \subseteq Route!Named \cup {0}
    BY DEF Route!Init, Route!Start
  <2>2. ASSUME NEW table \in Route!Tables
        PROVE  DOMAIN table \subseteq Nat /\ \A i \in DOMAIN table : table[i] \in Route!RouteEntries
    BY DEF Route!Tables
  <2> QED BY <2>1, <2>2 DEF RoutesTyped
<1> QED BY <1>1, <1>2 DEF RouterInv

LEMMA RouterNext == ASSUME RouterInv, [Route!Next]_(Route!vars) PROVE RouterInv'
<1>1. UNCHANGED <<mode, unmatched, routes, acceptedSysids, acceptedCompids>>
  BY DEF Route!Next, Route!Decide, Route!vars
<1>2. RoutesTyped'
  BY <1>1 DEF RouterInv, RoutesTyped
<1>3. \A s, c : Route!RouteWorkflowTarget(s, c)' = Route!RouteWorkflowTarget(s, c)
  BY <1>1 DEF Route!RouteWorkflowTarget, Route!Route, Route!Unmatched, Route!Usable, Route!IdAccepted,
              Route!Ends, Route!First, Route!Earlier, Route!Shadowed, Route!ResponderRoutes, Route!Accept,
              Route!None, Route!Covers, Route!Specificity, Route!Any
<1>4. CASE Route!Decide
  <2>1. PICK s \in RemoteSysids, c \in RemoteCompids \cup {0} :
          target' = <<s, c>> /\ decision' = Route!RouteWorkflowTarget(s, c)
    BY <1>4 DEF Route!Decide
  <2> QED BY <1>2, <1>3, <2>1 DEF RouterInv
<1>5. CASE UNCHANGED Route!vars
  BY <1>2, <1>3, <1>5 DEF Route!vars, RouterInv
<1> QED BY <1>4, <1>5 DEF Route!Next

LEMMA RouterViable == ASSUME RouterInv PROVE Route!BroadcastViable
<1> SUFFICES ASSUME target[1] # 0, target[2] = 0
             PROVE  LET answers == {Route!Route(target[1], c) : c \in RemoteCompids} \ {Route!None}
                    IN  IF decision.accepted THEN decision \in answers ELSE answers = {}
  BY DEF Route!BroadcastViable
<1>1. target[1] \in RemoteSysids /\ decision = Route!RouteWorkflowTarget(target[1], 0) /\ RoutesTyped
  BY DEF RouterInv
<1> QED BY <1>1, RoutedDecision, SingleDecision

\* For any table of routes and any broken, shadowing and wildcard ones among
\* them: a workflow that addresses all components of a system is accepted when,
\* and only when, the replies of some component get through, with the profile
\* they are decoded with.
THEOREM BroadcastsViable == Route!Spec => []Route!BroadcastViable
<1>1. RouterInv /\ [Route!Next]_(Route!vars) => RouterInv'
  BY RouterNext
<1> QED BY RouterStart, RouterViable, <1>1, PTL DEF Route!Spec

\* The same of the router among the parts of a connection.
THEOREM PartsBroadcastsViable == PartsSpec => []BroadcastViable
<1>1. PartsInit => RouterInv
  BY RouterStart DEF PartsInit
<1>2. ASSUME [PartsNext]_parts PROVE [Route!Next]_(Route!vars)
  BY <1>2 DEF PartsNext, parts, routerVars, Route!vars
<1>3. RouterInv /\ [PartsNext]_parts => RouterInv'
  BY <1>2, RouterNext
<1> QED BY <1>1, <1>3, RouterViable, PTL DEF PartsSpec, BroadcastViable
-----------------------------------------------------------------------------
(* Attachment.  For any sequence of deploys: a flow node is subscribed to   *)
(* the present connection once.                                             *)

Attachments == [connection : Nat, attachedTo : Nat, subs : Nat, source : Nat]

\* Nodes are numbered as they are created, so that a new one is like no other.
AttachmentTyped ==
  /\ changes \in Nat
  /\ conn \in 0..changes /\ held \in Nat /\ heldProfile \in Nat
  /\ own \in Attachments /\ own.attachedTo \in 0..changes

\* A subscription stands at the present connection, and at no other.
SubscribedAt(a) == a.subs = IF a.attachedTo # Attach!None /\ a.attachedTo = conn THEN 1 ELSE 0

SubscribedOnce == SubscribedAt(own)

\* A vehicle-state node whose connection is older than itself has an engine only
\* if that connection has a profile: a connection does not lose its profile.
EngineHasProfile ==
  flow = "open" /\ flowKind = "vehicleState" /\ ~first /\ conn # Attach!None /\ own.source # Attach!None
  => held # Attach!None

AttachmentInv ==
  /\ AttachmentTyped /\ SubscribedOnce /\ EngineHasProfile
  /\ Attach!AttachedOnce /\ Attach!EngineFollowsProfile

\* What a change of some fields leaves of an attachment.
LEMMA DropSubs ==
  ASSUME NEW a \in Attachments, NEW b, b = [a EXCEPT !.subs = 0]
  PROVE  b = [connection |-> a.connection, attachedTo |-> a.attachedTo, subs |-> 0, source |-> a.source]
BY DEF Attachments

LEMMA DropAttached ==
  ASSUME NEW a \in Attachments, NEW b, b = [a EXCEPT !.attachedTo = 0, !.subs = 0]
  PROVE  b = [connection |-> a.connection, attachedTo |-> 0, subs |-> 0, source |-> a.source]
BY DEF Attachments

LEMMA SetConnection ==
  ASSUME NEW a \in Attachments, NEW n, NEW b, b = [a EXCEPT !.connection = n]
  PROVE  b = [connection |-> n, attachedTo |-> a.attachedTo, subs |-> a.subs, source |-> a.source]
BY DEF Attachments

LEMMA SetNowhere ==
  ASSUME NEW a \in Attachments, NEW drops, NEW b,
         b = [a EXCEPT !.connection = 0, !.source = IF drops THEN 0 ELSE @]
  PROVE  b = [connection |-> 0, attachedTo |-> a.attachedTo, subs |-> a.subs,
              source |-> IF drops THEN 0 ELSE a.source]
BY DEF Attachments

LEMMA SetAttached ==
  ASSUME NEW a \in Attachments, NEW n, NEW p, NEW b,
         b = [a EXCEPT !.connection = n, !.attachedTo = n, !.subs = @ + 1,
                !.source = IF flowKind = "swarm" /\ @ # 0 THEN @ ELSE p]
  PROVE  b = [connection |-> n, attachedTo |-> n, subs |-> a.subs + 1,
              source |-> IF flowKind = "swarm" /\ a.source # 0 THEN a.source ELSE p]
BY DEF Attachments

\* What attach() does, case by case.
LEMMA AttachUnchanged == ASSUME NEW a, NEW p, Attach!Unchanged(a, p) PROVE Attach!Attached(a, p) = a
<1>1. conn # Attach!None /\ ~Attach!Throws(a, p)
  BY DEF Attach!Unchanged, Attach!Throws
<1> QED BY <1>1, Zenon DEF Attach!Attached

LEMMA AttachNowhere ==
  ASSUME NEW a, NEW p, conn = Attach!None
  PROVE  Attach!Attached(a, p) =
           [Attach!Detached(a) EXCEPT !.connection = Attach!None,
              !.source = IF flowKind = "vehicleState" THEN Attach!None ELSE @]
<1>1. ~Attach!Unchanged(a, p) /\ ~Attach!Throws(a, p)
  BY DEF Attach!Unchanged, Attach!Throws
<1> QED BY <1>1, Zenon DEF Attach!Attached

LEMMA AttachThrows ==
  ASSUME NEW a, NEW p, Attach!Throws(a, p)
  PROVE  Attach!Attached(a, p) = [Attach!Detached(a) EXCEPT !.connection = conn]
<1>1. ~Attach!Unchanged(a, p) /\ conn # Attach!None
  BY DEF Attach!Throws
<1> QED BY <1>1, Zenon DEF Attach!Attached

LEMMA AttachAnew ==
  ASSUME NEW a, NEW p, conn # Attach!None, ~Attach!Unchanged(a, p), ~Attach!Throws(a, p)
  PROVE  Attach!Attached(a, p) =
           [Attach!Detached(a) EXCEPT !.connection = conn, !.attachedTo = conn, !.subs = @ + 1,
              !.source = IF flowKind = "swarm" /\ @ # Attach!None THEN @ ELSE p]
BY Zenon DEF Attach!Attached

\* What attach() leaves behind: one subscription at the present connection, or
\* none when there is no connection or it has no profile.
LEMMA AttachLeaves ==
  ASSUME AttachmentTyped, NEW a \in Attachments, NEW p \in Nat, a.attachedTo \in 0..changes,
         SubscribedAt(a),
         NEW b, b = Attach!Attached(a, p)
  PROVE  /\ b \in Attachments /\ b.attachedTo \in 0..changes
         /\ SubscribedAt(b)
         /\ conn # Attach!None /\ ~Attach!Throws(a, p) => b.attachedTo = conn /\ b.subs = 1
         /\ flowKind = "vehicleState" /\ conn # Attach!None => b.source = p \/ (b.source = a.source /\ p = Attach!None)
<1> DEFINE d == Attach!Detached(a)
<1> USE DEF Attach!None, SubscribedAt
<1>1. d = [connection |-> a.connection, attachedTo |-> 0, subs |-> 0, source |-> a.source]
  <2>1. CASE a.attachedTo = 0
    <3>1. d = a /\ a.subs = 0
      BY <2>1 DEF Attach!Detached
    <3> HIDE DEF d
    <3> QED BY <2>1, <3>1 DEF Attachments
  <2>2. CASE a.attachedTo # 0
    <3>1. d = [a EXCEPT !.attachedTo = 0, !.subs = 0]
      BY <2>2 DEF Attach!Detached
    <3> QED BY <3>1, DropAttached
  <2> QED BY <2>1, <2>2
<1>0. d \in Attachments /\ conn \in 0..changes /\ conn \in Nat /\ changes \in Nat
  <2> HIDE DEF d
  <2> QED BY <1>1 DEF Attachments, AttachmentTyped
<1>2. CASE Attach!Unchanged(a, p)
  <2>1. b = a
    BY <1>2, AttachUnchanged
  <2> QED BY <1>2, <2>1 DEF Attach!Unchanged
<1>3. CASE conn = Attach!None
  <2>1. b = [d EXCEPT !.connection = 0, !.source = IF flowKind = "vehicleState" THEN 0 ELSE @]
    BY <1>3, AttachNowhere
  <2>2. b = [connection |-> 0, attachedTo |-> 0, subs |-> 0,
             source |-> IF flowKind = "vehicleState" THEN 0 ELSE a.source]
    <3> HIDE DEF d
    <3> QED BY <1>0, <1>1, <2>1, SetNowhere
  <2> QED BY <1>0, <1>3, <2>2 DEF Attachments
<1>4. CASE Attach!Throws(a, p)
  <2>1. b = [d EXCEPT !.connection = conn] /\ p = 0 /\ conn \in Nat
    BY <1>4, AttachThrows DEF Attach!Throws, AttachmentTyped
  <2>2. b = [connection |-> conn, attachedTo |-> 0, subs |-> 0, source |-> a.source]
    <3> HIDE DEF d
    <3> QED BY <1>0, <1>1, <2>1, SetConnection
  <2> QED BY <1>0, <1>4, <2>1, <2>2 DEF Attachments
<1>5. CASE conn # Attach!None /\ ~Attach!Unchanged(a, p) /\ ~Attach!Throws(a, p)
  <2>1. b = [d EXCEPT !.connection = conn, !.attachedTo = conn, !.subs = @ + 1,
               !.source = IF flowKind = "swarm" /\ @ # 0 THEN @ ELSE p]
    BY <1>5, AttachAnew
  <2>2. b = [connection |-> conn, attachedTo |-> conn, subs |-> 1,
             source |-> IF flowKind = "swarm" /\ a.source # 0 THEN a.source ELSE p]
    <3> HIDE DEF d
    <3>1. b = [connection |-> conn, attachedTo |-> conn, subs |-> d.subs + 1,
               source |-> IF flowKind = "swarm" /\ d.source # 0 THEN d.source ELSE p]
      <4>1. d \in Attachments
        BY <1>0
      <4> QED BY <2>1, <4>1, SetAttached, Zenon
    <3>2. d.subs = 0 /\ d.source = a.source
      BY <1>1
    <3> QED BY <3>1, <3>2
  <2> QED BY <1>0, <1>5, <2>2 DEF Attachments
<1> QED BY <1>2, <1>3, <1>4, <1>5

LEMMA AttachmentStart == ASSUME NEW k, Attach!Start(k) PROVE AttachmentInv
<1>1. own = [connection |-> 0, attachedTo |-> 0, subs |-> 0, source |-> 0]
  BY DEF Attach!Start, Attach!Fresh, Attach!None
<1>2. own \in Attachments /\ own.attachedTo = 0 /\ own.subs = 0
  BY <1>1 DEF Attachments
<1>3. conn = 0 /\ held = 0 /\ heldProfile = 0 /\ flow = "absent" /\ changes = 0
  BY DEF Attach!Start, Attach!None
<1>4. AttachmentTyped
  BY <1>2, <1>3 DEF AttachmentTyped
<1> QED BY <1>2, <1>3, <1>4 DEF AttachmentInv, SubscribedOnce, SubscribedAt, EngineHasProfile, Attach!AttachedOnce,
                                Attach!EngineFollowsProfile, Attach!None

\* A node created or removed by a deploy.
LEMMA ChangesKeep ==
  ASSUME AttachmentInv, \/ Attach!RemoveConnection \/ Attach!CreateConnection
                        \/ Attach!RemoveProfile \/ Attach!CreateProfile \/ Attach!RemoveFlow
  PROVE  AttachmentInv'
<1> USE DEF Attach!None
<1>0. /\ changes' = changes + 1 /\ deploy' # "done" /\ changes \in Nat /\ changes' \in Nat
      /\ 0..changes \subseteq 0..changes'
  BY DEF AttachmentInv, AttachmentTyped, Attach!Change, Attach!RemoveConnection, Attach!CreateConnection,
         Attach!RemoveProfile, Attach!CreateProfile, Attach!RemoveFlow
<1>1. AttachmentTyped' /\ SubscribedOnce' /\ EngineHasProfile'
  <2>1. CASE Attach!RemoveConnection
    <3>1. conn' = 0 /\ held' = 0 /\ own' = [own EXCEPT !.subs = 0] /\ UNCHANGED <<flowKind, heldProfile, flow, first>>
      BY <2>1 DEF Attach!RemoveConnection
    <3>2. own' = [connection |-> own.connection, attachedTo |-> own.attachedTo, subs |-> 0, source |-> own.source]
      BY <3>1, DropSubs DEF AttachmentInv, AttachmentTyped
    <3>3. own' \in Attachments /\ own'.attachedTo = own.attachedTo /\ own'.subs = 0
      BY <3>2 DEF AttachmentInv, AttachmentTyped, Attachments
    <3> QED BY <1>0, <3>1, <3>3 DEF AttachmentInv, AttachmentTyped, SubscribedOnce, SubscribedAt, EngineHasProfile
  <2>2. CASE Attach!CreateConnection
    <3>1. /\ conn = 0 /\ conn' = changes + 1 /\ held' = heldProfile /\ first' = (flow = "open")
          /\ UNCHANGED <<flowKind, heldProfile, flow, own>>
      BY <2>2 DEF Attach!CreateConnection
    <3>2. (flow = "open" => first')
      BY <3>1
    <3>3. AttachmentTyped'
      BY <1>0, <3>1, <3>2 DEF AttachmentInv, AttachmentTyped
    <3>4. own.attachedTo # conn' /\ own.subs = 0
      BY <1>0, <3>1 DEF AttachmentInv, AttachmentTyped, SubscribedOnce, SubscribedAt
    <3> QED BY <3>1, <3>2, <3>3, <3>4 DEF AttachmentInv, AttachmentTyped, SubscribedOnce, SubscribedAt, EngineHasProfile
  <2>3. CASE Attach!RemoveProfile \/ Attach!CreateProfile
    <3>1. heldProfile' \in Nat /\ UNCHANGED <<flowKind, conn, held, flow, first, own>>
      BY <1>0, <2>3 DEF Attach!RemoveProfile, Attach!CreateProfile
    <3> QED BY <1>0, <3>1 DEF AttachmentInv, AttachmentTyped, SubscribedOnce, SubscribedAt, EngineHasProfile
  <2>4. CASE Attach!RemoveFlow
    <3>1. flow' = "absent" /\ own' = Attach!Fresh /\ UNCHANGED <<flowKind, conn, held, heldProfile, first>>
      BY <2>4 DEF Attach!RemoveFlow
    <3>2. own' \in Attachments /\ own'.attachedTo = 0 /\ own'.subs = 0
      BY <3>1 DEF Attach!Fresh, Attachments
    <3> QED BY <1>0, <3>1, <3>2 DEF AttachmentInv, AttachmentTyped, SubscribedOnce, SubscribedAt, EngineHasProfile
  <2> QED BY <2>1, <2>2, <2>3, <2>4
<1> QED BY <1>0, <1>1 DEF AttachmentInv, Attach!AttachedOnce, Attach!EngineFollowsProfile
LEMMA CreateFlowKeeps == ASSUME AttachmentInv, Attach!CreateFlow PROVE AttachmentInv'
<1> USE DEF Attach!None
<1> DEFINE a == Attach!Fresh
<1>1. /\ own' = Attach!Attached(a, held) /\ first' = FALSE /\ deploy' = "flows" /\ changes' = changes + 1
      /\ UNCHANGED <<flowKind, conn, held, heldProfile>>
  BY DEF Attach!CreateFlow, Attach!Change
<1>2. AttachmentTyped /\ held \in Nat /\ changes \in Nat
  BY DEF AttachmentInv, AttachmentTyped
<1>3. a \in Attachments /\ a.attachedTo = 0 /\ a.subs = 0 /\ a.source = 0
  <2>1. a = [connection |-> 0, attachedTo |-> 0, subs |-> 0, source |-> 0]
    BY DEF Attach!Fresh
  <2> HIDE DEF a
  <2> QED BY <2>1 DEF Attachments
<1>4. a.attachedTo \in 0..changes /\ SubscribedAt(a)
  BY <1>2, <1>3 DEF SubscribedAt
<1> HIDE DEF a
<1>5. /\ own' \in Attachments /\ own'.attachedTo \in 0..changes
      /\ SubscribedAt(own')
      /\ flowKind = "vehicleState" /\ conn # 0 => own'.source = held \/ own'.source = 0
  BY <1>1, <1>2, <1>3, <1>4, AttachLeaves, Zenon
<1>6. AttachmentTyped'
  <2>1. changes' \in Nat /\ 0..changes \subseteq 0..changes'
    BY <1>1, <1>2
  <2> QED BY <1>1, <1>2, <1>5, <2>1 DEF AttachmentTyped
<1>7. SubscribedOnce' /\ EngineHasProfile'
  BY <1>1, <1>5 DEF SubscribedOnce, SubscribedAt, EngineHasProfile
<1> QED BY <1>1, <1>6, <1>7 DEF AttachmentInv, Attach!AttachedOnce, Attach!EngineFollowsProfile

LEMMA FlowsStartedKeeps == ASSUME AttachmentInv, Attach!FlowsStarted PROVE AttachmentInv'
<1> USE DEF Attach!None
<1> DEFINE p == IF first THEN held ELSE Attach!Reconciled
<1>1. UNCHANGED <<flowKind, conn, heldProfile, flow, first, changes>>
  BY DEF Attach!FlowsStarted
<1>2. /\ AttachmentTyped /\ held \in Nat /\ heldProfile \in Nat /\ own \in Attachments
      /\ own.attachedTo \in 0..changes
  BY DEF AttachmentInv, AttachmentTyped
<1>3. /\ Attach!Reconciled \in Nat
      /\ held # 0 => Attach!Reconciled # 0
  BY <1>2 DEF Attach!Reconciled
<1>4. held' \in Nat /\ (held' = held \/ held' = Attach!Reconciled)
  BY <1>2, <1>3 DEF Attach!FlowsStarted
<1>5. CASE flow # "open"
  <2>1. own' = own
    BY <1>5 DEF Attach!FlowsStarted
  <2> QED BY <1>1, <1>2, <1>4, <1>5, <2>1 DEF AttachmentInv, AttachmentTyped, SubscribedOnce, SubscribedAt, EngineHasProfile,
                                              Attach!AttachedOnce, Attach!EngineFollowsProfile
<1>6. CASE flow = "open"
  <2>1. own' = Attach!Attached(own, p) /\ p \in Nat
    BY <1>2, <1>3, <1>6 DEF Attach!FlowsStarted
  <2>2. held' = IF first /\ Attach!Throws(own, held) THEN held ELSE Attach!Reconciled
    BY <1>6 DEF Attach!FlowsStarted
  <2>3. SubscribedAt(own)
    BY DEF AttachmentInv, SubscribedOnce
  <2>4. p = IF first THEN held ELSE Attach!Reconciled
    OBVIOUS
  <2> HIDE DEF p
  <2>5. /\ own' \in Attachments /\ own'.attachedTo \in 0..changes
        /\ SubscribedAt(own')
        /\ conn # 0 /\ ~Attach!Throws(own, p) => own'.attachedTo = conn /\ own'.subs = 1
        /\ flowKind = "vehicleState" /\ conn # 0 => own'.source = p \/ (own'.source = own.source /\ p = 0)
    <3>1. own' \in Attachments /\ own'.attachedTo \in 0..changes /\ SubscribedAt(own')
      BY <1>2, <2>1, <2>3, AttachLeaves
    <3>2. conn # 0 /\ ~Attach!Throws(own, p) => own'.attachedTo = conn /\ own'.subs = 1
      BY <1>2, <2>1, <2>3, AttachLeaves
    <3>3. flowKind = "vehicleState" /\ conn # 0 => own'.source = p \/ (own'.source = own.source /\ p = 0)
      BY <1>2, <2>1, <2>3, AttachLeaves
    <3> QED BY <3>1, <3>2, <3>3
  <2>6. ~first => p = Attach!Reconciled /\ held' = Attach!Reconciled
    BY <2>2, <2>4
  <2>7. AttachmentTyped'
    <3>1. own' \in Attachments /\ own'.attachedTo \in 0..changes /\ changes' = changes
      BY <1>1, <2>5
    <3>2. conn' = conn /\ heldProfile' = heldProfile /\ held' \in Nat
      BY <1>1, <1>4
    <3> QED BY <1>2, <3>1, <3>2 DEF AttachmentTyped
  <2>8. flowKind = "vehicleState" /\ ~first /\ conn # 0 => own'.source = held'
    <3> SUFFICES ASSUME flowKind = "vehicleState", ~first, conn # 0, p = 0, own'.source = own.source
                 PROVE  own.source = 0
      BY <2>5, <2>6
    <3>1. held = 0
      BY <1>3, <2>6
    <3> QED BY <1>6, <3>1 DEF AttachmentInv, EngineHasProfile
  <2>9. SubscribedOnce' /\ EngineHasProfile' /\ Attach!EngineFollowsProfile'
    BY <1>1, <2>5, <2>8 DEF SubscribedOnce, SubscribedAt, EngineHasProfile, Attach!EngineFollowsProfile
  <2>10. Attach!AttachedOnce'
    <3> SUFFICES ASSUME conn # 0, held' # 0 PROVE own'.attachedTo = conn /\ own'.subs = 1
      BY <1>1 DEF Attach!AttachedOnce
    <3>1. ~Attach!Throws(own, p)
      <4> SUFFICES ASSUME Attach!Throws(own, p) PROVE FALSE
        OBVIOUS
      <4>1. p = 0
        BY DEF Attach!Throws
      <4>2. first /\ p = held
        BY <2>4, <2>6, <4>1
      <4> QED BY <2>2, <4>1, <4>2
    <3> QED BY <2>5, <3>1
  <2> QED BY <2>7, <2>9, <2>10 DEF AttachmentInv
<1> QED BY <1>5, <1>6

LEMMA AttachmentNext == ASSUME AttachmentInv, [Attach!Next]_(Attach!vars) PROVE AttachmentInv'
<1>1. CASE UNCHANGED Attach!vars
  BY <1>1 DEF Attach!vars, AttachmentInv, AttachmentTyped, SubscribedOnce, SubscribedAt, EngineHasProfile,
              Attach!AttachedOnce, Attach!EngineFollowsProfile
<1> QED BY <1>1, ChangesKeep, CreateFlowKeeps, FlowsStartedKeeps DEF Attach!Next

\* For any sequence of deploys that create, replace and remove the connection,
\* its profile and the flow node, in any order of their listeners: after a
\* deploy the flow node is subscribed to the present connection once, and a
\* vehicle-state node reconciled after its connection has the enums of its
\* present profile.
THEOREM PartsAttachedOnce == PartsSpec => []AttachedOnce
<1>1. PartsInit => AttachmentInv
  BY AttachmentStart DEF PartsInit
<1>2. ASSUME [PartsNext]_parts PROVE [Attach!Next]_(Attach!vars)
  BY <1>2 DEF PartsNext, parts, attachmentVars, Attach!vars
<1>3. AttachmentInv /\ [PartsNext]_parts => AttachmentInv'
  BY <1>2, AttachmentNext
<1>4. AttachmentInv => AttachedOnce
  BY DEF AttachmentInv, AttachedOnce
<1> QED BY <1>1, <1>3, <1>4, PTL DEF PartsSpec
-----------------------------------------------------------------------------
(* The include walk.  For any include graph, with cycles, shared and        *)
(* refused includes: what is ordered is what the root reaches, once, and    *)
(* after all it includes.                                                   *)

Frames == [file : Files, next : Nat \ {0}]

GraphTyped ==
  /\ includes \in [Files -> Seq(Files \cup {RefusedFile})]
  /\ root \in Files
  /\ stack \in Seq(Frames)
  /\ ordered \in Seq(Files)
  /\ resolved = {ordered[k] : k \in DOMAIN ordered}

\* The files entered are those of a path from the root, each once; none of them
\* is resolved.
StackIsPath ==
  /\ \A k \in DOMAIN stack : stack[k].file \in Graph!Reached /\ stack[k].file \notin resolved
  /\ \A j, k \in DOMAIN stack : j < k => /\ stack[k].file # stack[j].file
                                         /\ stack[k].file \in Graph!Below(stack[j].file)

\* The includes that were walked are resolved, but for the one being walked.
WalkedResolved ==
  \A k \in DOMAIN stack : \A i \in 1..(stack[k].next - 1) :
    i \in DOMAIN includes[stack[k].file] =>
      \/ includes[stack[k].file][i] \in resolved \cup {RefusedFile}
      \/ k + 1 \in DOMAIN stack /\ includes[stack[k].file][i] = stack[k + 1].file

\* The order so far: each file once, after all it includes.
OrderedSoFar ==
  /\ resolved \subseteq Graph!Reached
  /\ \A j, k \in DOMAIN ordered : j # k => ordered[j] # ordered[k]
  /\ \A k \in DOMAIN ordered : \A g \in Graph!Included(ordered[k]) :
       \E j \in DOMAIN ordered : j < k /\ ordered[j] = g

\* The root is at the bottom of the stack until it is resolved.
RootLast ==
  /\ stack # <<>> => stack[1].file = root
  /\ result = "ordered" => stack = <<>> /\ root \in resolved

FailureFound ==
  /\ result = "cycle" => \E f \in Graph!Reached : f \in Graph!Below(f)
  /\ result = "refused" =>
       \E f \in Graph!Reached : \E k \in DOMAIN includes[f] : includes[f][k] = RefusedFile

GraphInv ==
  /\ GraphTyped /\ StackIsPath /\ WalkedResolved /\ OrderedSoFar /\ RootLast /\ FailureFound

-----------------------------------------------------------------------------
LEMMA IncludedFiles ==
  ASSUME GraphTyped, NEW f \in Files
  PROVE  /\ Graph!Included(f) \subseteq Files
         /\ \A k \in DOMAIN includes[f] :
              includes[f][k] # RefusedFile => includes[f][k] \in Graph!Included(f)
BY DEF GraphTyped, Graph!Included

\* What f includes is below it, and so is what a file below it includes; every
\* set of files with that property holds what is below f.
LEMMA BelowContains ==
  ASSUME GraphTyped, NEW f \in Files, NEW g \in Graph!Included(f) PROVE g \in Graph!Below(f)
BY IncludedFiles DEF Graph!Below

LEMMA BelowCloses ==
  ASSUME GraphTyped, NEW f \in Files, NEW g \in Graph!Below(f), NEW h \in Graph!Included(g)
  PROVE  h \in Graph!Below(f)
<1>1. g \in Files /\ h \in Files
  BY IncludedFiles DEF Graph!Below
<1>2. ASSUME NEW S \in SUBSET Files, Graph!Included(f) \subseteq S, \A x \in S : Graph!Included(x) \subseteq S
      PROVE  h \in S
  <2>1. g \in S
    BY <1>2 DEF Graph!Below
  <2> QED BY <1>2, <2>1
<1> QED BY <1>1, <1>2 DEF Graph!Below

LEMMA BelowLeast ==
  ASSUME NEW f, NEW S \in SUBSET Files, Graph!Included(f) \subseteq S,
         \A x \in S : Graph!Included(x) \subseteq S
  PROVE  Graph!Below(f) \subseteq S
BY DEF Graph!Below

LEMMA ReachedCloses ==
  ASSUME GraphTyped, NEW f \in Graph!Reached
  PROVE  f \in Files /\ Graph!Included(f) \subseteq Graph!Reached
<1>1. root \in Files
  BY DEF GraphTyped
<1>2. f \in Files
  BY <1>1 DEF Graph!Reached, Graph!Below
<1> QED BY <1>1, <1>2, BelowContains, BelowCloses DEF Graph!Reached

\* Advancing the index of the top of the stack.
LEMMA AdvancedFrame ==
  ASSUME NEW a \in Frames, NEW b, b = [a EXCEPT !.next = @ + 1]
  PROVE  b = [file |-> a.file, next |-> a.next + 1]
BY DEF Frames

LEMMA AdvancedStack ==
  ASSUME GraphTyped, stack # <<>>
  PROVE  /\ Len(stack) \in Nat \ {0} /\ DOMAIN stack = 1..Len(stack)
         /\ Graph!Advanced \in Seq(Frames)
         /\ Len(Graph!Advanced) = Len(stack)
         /\ \A k \in DOMAIN stack : Graph!Advanced[k] =
              [file |-> stack[k].file, next |-> stack[k].next + (IF k = Len(stack) THEN 1 ELSE 0)]
<1> DEFINE n == Len(stack)
           top == [stack[n] EXCEPT !.next = @ + 1]
<1>1. stack \in Seq(Frames) /\ n \in Nat \ {0} /\ DOMAIN stack = 1..n
  BY DEF GraphTyped
<1>2. stack[n] \in Frames
  BY <1>1
<1>3. top = [file |-> stack[n].file, next |-> stack[n].next + 1]
  BY <1>2, AdvancedFrame
<1>4. Graph!Advanced = [stack EXCEPT ![n] = top]
  BY DEF Graph!Advanced
<1> HIDE DEF top
<1>5. top \in Frames
  BY <1>2, <1>3 DEF Frames
<1>6. \A k \in DOMAIN stack : Graph!Advanced[k] = IF k = n THEN top ELSE stack[k]
  BY <1>1, <1>4
<1>7. Graph!Advanced \in Seq(Frames) /\ Len(Graph!Advanced) = n
  BY <1>1, <1>4, <1>5
<1>8. \A k \in DOMAIN stack : stack[k] \in Frames
  BY <1>1
<1>9. \A k \in DOMAIN stack : stack[k] = [file |-> stack[k].file, next |-> stack[k].next + 0]
  BY <1>8 DEF Frames
<1> QED BY <1>1, <1>3, <1>6, <1>7, <1>9
\* The top of the stack and its next include.
LEMMA TopOfStack ==
  ASSUME GraphInv, Graph!Running
  PROVE  /\ stack # <<>> /\ Len(stack) \in Nat \ {0} /\ DOMAIN stack = 1..Len(stack) /\ Len(stack) \in DOMAIN stack
         /\ Graph!Top = stack[Len(stack)]
         /\ Graph!Top.file \in Files /\ Graph!Top.next \in Nat \ {0} /\ Graph!Top.file \in Graph!Reached
         /\ Graph!HasMore => Graph!Top.next \in DOMAIN includes[Graph!Top.file]
         /\ DOMAIN includes[Graph!Top.file] = 1..Len(includes[Graph!Top.file])
         /\ Len(includes[Graph!Top.file]) \in Nat
<1>1. stack # <<>> /\ stack \in Seq(Frames)
  BY DEF Graph!Running, GraphInv, GraphTyped
<1>2. Len(stack) \in Nat \ {0} /\ DOMAIN stack = 1..Len(stack) /\ Len(stack) \in DOMAIN stack
  BY <1>1
<1>3. Graph!Top = stack[Len(stack)] /\ Graph!Top \in Frames
  BY <1>1, <1>2 DEF Graph!Top
<1>4. Graph!Top.file \in Files /\ Graph!Top.next \in Nat \ {0}
  BY <1>3 DEF Frames
<1>5. includes[Graph!Top.file] \in Seq(Files \cup {RefusedFile})
  BY <1>4 DEF GraphInv, GraphTyped
<1>6. Graph!Top.file \in Graph!Reached
  BY <1>2, <1>3 DEF GraphInv, StackIsPath
<1>7. Graph!HasMore => Graph!Top.next \in DOMAIN includes[Graph!Top.file]
  BY <1>4, <1>5 DEF Graph!HasMore
<1> QED BY <1>1, <1>2, <1>3, <1>4, <1>5, <1>6, <1>7

\* The graph does not change while it is walked.
LEMMA SameGraph ==
  ASSUME UNCHANGED <<includes, root>>
  PROVE  /\ Graph!Reached' = Graph!Reached
         /\ \A f : Graph!Below(f)' = Graph!Below(f)
         /\ \A f : Graph!Included(f)' = Graph!Included(f)
BY DEF Graph!Reached, Graph!Below, Graph!Included

\* What is under way after the top is advanced: its next include is walked too.
LEMMA AdvancedWalk ==
  ASSUME GraphInv, Graph!Running
  PROVE  \A k \in DOMAIN stack :
           /\ Graph!Advanced[k].file = stack[k].file
           /\ \A i \in 1..(Graph!Advanced[k].next - 1) : i \in DOMAIN includes[stack[k].file] =>
                \/ includes[stack[k].file][i] \in resolved \cup {RefusedFile}
                \/ k + 1 \in DOMAIN stack /\ includes[stack[k].file][i] = stack[k + 1].file
                \/ k = Len(stack) /\ includes[stack[k].file][i] = Graph!Due
<1> SUFFICES ASSUME NEW k \in DOMAIN stack
             PROVE  /\ Graph!Advanced[k].file = stack[k].file
                    /\ \A i \in 1..(Graph!Advanced[k].next - 1) : i \in DOMAIN includes[stack[k].file] =>
                         \/ includes[stack[k].file][i] \in resolved \cup {RefusedFile}
                         \/ k + 1 \in DOMAIN stack /\ includes[stack[k].file][i] = stack[k + 1].file
                         \/ k = Len(stack) /\ includes[stack[k].file][i] = Graph!Due
  OBVIOUS
<1>1. Graph!Advanced[k] = [file |-> stack[k].file, next |-> stack[k].next + (IF k = Len(stack) THEN 1 ELSE 0)]
  BY TopOfStack, AdvancedStack DEF GraphInv
<1>2. Graph!Advanced[k].file = stack[k].file
      /\ Graph!Advanced[k].next = stack[k].next + (IF k = Len(stack) THEN 1 ELSE 0)
  BY <1>1
<1>3. stack[k].next \in Nat
  <2>1. stack \in Seq(Frames)
    BY DEF GraphInv, GraphTyped
  <2>2. stack[k] \in Frames
    BY <2>1
  <2> QED BY <2>2 DEF Frames
<1>4. ASSUME NEW i \in 1..(Graph!Advanced[k].next - 1), i \in DOMAIN includes[stack[k].file]
      PROVE  \/ includes[stack[k].file][i] \in resolved \cup {RefusedFile}
             \/ k + 1 \in DOMAIN stack /\ includes[stack[k].file][i] = stack[k + 1].file
             \/ k = Len(stack) /\ includes[stack[k].file][i] = Graph!Due
  <2>1. CASE i \in 1..(stack[k].next - 1)
    BY <1>4, <2>1 DEF GraphInv, WalkedResolved
  <2>2. CASE i \notin 1..(stack[k].next - 1)
    <3>1. k = Len(stack) /\ i = stack[k].next
      BY <1>2, <1>3, <2>2
    <3> QED BY <3>1, TopOfStack DEF Graph!Due
  <2> QED BY <2>1, <2>2
<1> QED BY <1>2, <1>4

LEMMA EnterKeeps == ASSUME GraphInv, Graph!Enter PROVE GraphInv'
<1> DEFINE n == Len(stack)
           f == Graph!Top.file
           g == Graph!Due
<1>0. Graph!Running /\ Graph!HasMore /\ UNCHANGED <<includes, root, resolved, ordered, result>>
  BY DEF Graph!Enter
<1>1. /\ n \in Nat \ {0} /\ DOMAIN stack = 1..n /\ n \in DOMAIN stack /\ stack # <<>>
      /\ f = stack[n].file /\ f \in Files /\ f \in Graph!Reached
  BY <1>0, TopOfStack
<1>2. g \in Graph!Included(f) /\ g \in Files
  <2>1. g = includes[f][Graph!Top.next] /\ Graph!Top.next \in DOMAIN includes[f] /\ g # RefusedFile
    BY <1>0, TopOfStack DEF Graph!Due, Graph!Enter
  <2> QED BY <1>1, <2>1, IncludedFiles DEF GraphInv
<1>3. g \notin resolved /\ \A k \in DOMAIN stack : stack[k].file # g
  BY DEF Graph!Enter, Graph!Skips, Graph!OnStack
<1>4. g \in Graph!Reached /\ \A j \in DOMAIN stack : g \in Graph!Below(stack[j].file)
  <2>1. g \in Graph!Reached
    BY <1>1, <1>2, ReachedCloses DEF GraphInv
  <2>2. ASSUME NEW j \in DOMAIN stack PROVE g \in Graph!Below(stack[j].file)
    <3>1. stack[j].file \in Files
      BY ReachedCloses DEF GraphInv, StackIsPath
    <3>2. CASE j = n
      BY <1>1, <1>2, <3>2, BelowContains DEF GraphInv
    <3>3. CASE j # n
      <4>1. f \in Graph!Below(stack[j].file)
        BY <1>1, <3>3 DEF GraphInv, StackIsPath
      <4> QED BY <1>2, <3>1, <4>1, BelowCloses DEF GraphInv
    <3> QED BY <3>2, <3>3
  <2> QED BY <2>1, <2>2
<1> DEFINE entered == [file |-> g, next |-> 1]
<1>5. /\ stack' \in Seq(Frames) /\ Len(stack') = n + 1 /\ DOMAIN stack' = 1..(n + 1)
      /\ \A k \in 1..n : stack'[k] = Graph!Advanced[k]
      /\ stack'[n + 1] = entered
  <2>1. stack' = Append(Graph!Advanced, entered)
    BY DEF Graph!Enter, Graph!Pushed
  <2>2. entered \in Frames
    BY <1>2 DEF Frames
  <2>3. Graph!Advanced \in Seq(Frames) /\ Len(Graph!Advanced) = n
    BY <1>1, AdvancedStack DEF GraphInv
  <2> HIDE DEF entered, n
  <2> QED BY <1>1, <2>1, <2>2, <2>3
<1>6. stack'[n + 1].file = g /\ stack'[n + 1].next = 1
  BY <1>5
<1> HIDE DEF n, f, g, entered
<1>7. \A k \in 1..n : stack'[k].file = stack[k].file
  BY <1>0, <1>1, <1>5, AdvancedWalk
<1>8. GraphTyped'
  BY <1>0, <1>5 DEF GraphInv, GraphTyped
<1>9. StackIsPath'
  <2>1. \A k \in DOMAIN stack' : stack'[k].file \in Graph!Reached /\ stack'[k].file \notin resolved
    <3>1. \A k \in DOMAIN stack' : k \in 1..n \/ k = n + 1
      BY <1>1, <1>5
    <3>2. \A k \in 1..n : stack[k].file \in Graph!Reached /\ stack[k].file \notin resolved
      BY <1>1 DEF GraphInv, StackIsPath
    <3> QED BY <1>3, <1>4, <1>6, <1>7, <3>1, <3>2
  <2>2. ASSUME NEW j \in DOMAIN stack', NEW k \in DOMAIN stack', j < k
        PROVE  stack'[k].file # stack'[j].file /\ stack'[k].file \in Graph!Below(stack'[j].file)
    <3>1. j \in 1..n /\ stack'[j].file = stack[j].file
      BY <1>1, <1>5, <1>7, <2>2
    <3>2. CASE k \in 1..n
      BY <1>1, <1>7, <2>2, <3>1, <3>2 DEF GraphInv, StackIsPath
    <3>3. CASE k = n + 1
      BY <1>1, <1>3, <1>4, <1>6, <3>1, <3>3
    <3> QED BY <1>1, <1>5, <3>2, <3>3
  <2> QED BY <1>0, <2>1, <2>2, SameGraph DEF StackIsPath
<1>10. WalkedResolved'
  <2> SUFFICES ASSUME NEW k \in DOMAIN stack', NEW i \in 1..(stack'[k].next - 1),
                      i \in DOMAIN includes[stack'[k].file]
               PROVE  \/ includes[stack'[k].file][i] \in resolved \cup {RefusedFile}
                      \/ k + 1 \in DOMAIN stack' /\ includes[stack'[k].file][i] = stack'[k + 1].file
    BY <1>0 DEF WalkedResolved
  <2>1. k \in 1..n
    BY <1>1, <1>5, <1>6
  <2>2. stack'[k] = Graph!Advanced[k] /\ stack'[k].file = stack[k].file /\ k \in DOMAIN stack
    BY <1>1, <1>5, <1>7, <2>1
  <2>3. \/ includes[stack[k].file][i] \in resolved \cup {RefusedFile}
        \/ k + 1 \in DOMAIN stack /\ includes[stack[k].file][i] = stack[k + 1].file
        \/ k = n /\ includes[stack[k].file][i] = g
    BY <1>0, <2>2, AdvancedWalk DEF n, g
  <2> QED BY <1>1, <1>5, <1>6, <1>7, <2>2, <2>3
<1>11. OrderedSoFar'
  BY <1>0, SameGraph DEF GraphInv, OrderedSoFar
<1>12. RootLast'
  <2>1. stack'[1].file = stack[1].file /\ stack[1].file = root /\ result = "running"
    BY <1>0, <1>1, <1>7 DEF GraphInv, RootLast, Graph!Running
  <2> QED BY <1>0, <2>1 DEF RootLast
<1>13. FailureFound'
  BY <1>0 DEF FailureFound, Graph!Running
<1> QED BY <1>8, <1>9, <1>10, <1>11, <1>12, <1>13 DEF GraphInv

LEMMA SkipKeeps == ASSUME GraphInv, Graph!Skip PROVE GraphInv'
<1> DEFINE n == Len(stack)
<1>1. Graph!Running /\ UNCHANGED <<includes, root, resolved, ordered, result>> /\ Graph!Due \in resolved
  BY DEF Graph!Skip, Graph!Skips
<1>2. stack # <<>> /\ n \in Nat \ {0} /\ DOMAIN stack = 1..n
  BY <1>1, TopOfStack
<1>3. stack' = Graph!Advanced /\ stack' \in Seq(Frames) /\ Len(stack') = n /\ DOMAIN stack' = DOMAIN stack
  BY <1>2, AdvancedStack DEF Graph!Skip, GraphInv
<1> HIDE DEF n
<1>4. \A k \in DOMAIN stack : stack'[k].file = stack[k].file
  BY <1>1, <1>3, AdvancedWalk
<1>5. GraphTyped'
  BY <1>1, <1>3 DEF GraphInv, GraphTyped
<1>6. StackIsPath'
  BY <1>1, <1>3, <1>4, SameGraph DEF GraphInv, StackIsPath
<1>7. WalkedResolved'
  <2> SUFFICES ASSUME NEW k \in DOMAIN stack', NEW i \in 1..(stack'[k].next - 1),
                      i \in DOMAIN includes[stack'[k].file]
               PROVE  \/ includes[stack'[k].file][i] \in resolved \cup {RefusedFile}
                      \/ k + 1 \in DOMAIN stack' /\ includes[stack'[k].file][i] = stack'[k + 1].file
    BY <1>1 DEF WalkedResolved
  <2>1. \/ includes[stack[k].file][i] \in resolved \cup {RefusedFile}
        \/ k + 1 \in DOMAIN stack /\ includes[stack[k].file][i] = stack[k + 1].file
        \/ k = n /\ includes[stack[k].file][i] = Graph!Due
    BY <1>1, <1>3, <1>4, AdvancedWalk DEF n
  <2> QED BY <1>1, <1>3, <1>4, <2>1
<1>8. OrderedSoFar'
  BY <1>1, SameGraph DEF GraphInv, OrderedSoFar
<1>9. RootLast'
  <2>1. stack'[1].file = stack[1].file /\ stack[1].file = root /\ result = "running"
    BY <1>1, <1>2, <1>4 DEF GraphInv, RootLast, Graph!Running
  <2> QED BY <1>1, <2>1 DEF RootLast
<1>10. FailureFound'
  BY <1>1 DEF FailureFound, Graph!Running
<1> QED BY <1>5, <1>6, <1>7, <1>8, <1>9, <1>10 DEF GraphInv

\* A file on the stack is below itself when the top includes it; a refused
\* include is one of the top's, which the root reaches.
LEMMA FailureKeeps == ASSUME GraphInv, Graph!Cycle \/ Graph!Refuse PROVE GraphInv'
<1> DEFINE f == Graph!Top.file
           n == Len(stack)
<1>1. Graph!Running /\ Graph!HasMore /\ UNCHANGED <<includes, root, stack, resolved, ordered>>
      /\ result' \in {"cycle", "refused"}
  BY DEF Graph!Cycle, Graph!Refuse
<1>2. /\ f \in Files /\ f \in Graph!Reached /\ n \in DOMAIN stack /\ f = stack[n].file
      /\ Graph!Top.next \in DOMAIN includes[f] /\ Graph!Due = includes[f][Graph!Top.next]
      /\ n \in Nat \ {0} /\ DOMAIN stack = 1..n
  BY <1>1, TopOfStack DEF Graph!Due
<1> HIDE DEF f, n
<1>3. GraphTyped' /\ StackIsPath' /\ WalkedResolved' /\ OrderedSoFar' /\ RootLast'
  BY <1>1, SameGraph DEF GraphInv, GraphTyped, StackIsPath, WalkedResolved, OrderedSoFar, RootLast
<1>4. ASSUME Graph!Refuse
      PROVE  result' = "refused" /\ \E h \in Graph!Reached : \E k \in DOMAIN includes[h] : includes[h][k] = RefusedFile
  BY <1>2, <1>4 DEF Graph!Refuse
<1>5. ASSUME Graph!Cycle PROVE result' = "cycle" /\ \E h \in Graph!Reached : h \in Graph!Below(h)
  <2>1. PICK j \in DOMAIN stack : stack[j].file = Graph!Due
    BY <1>5 DEF Graph!Cycle, Graph!OnStack
  <2>2. Graph!Due # RefusedFile /\ Graph!Due \in Graph!Included(f)
    BY <1>2, <1>5, IncludedFiles DEF GraphInv, Graph!Cycle
  <2>3. stack[j].file \in Graph!Reached /\ stack[j].file \in Files
    BY ReachedCloses DEF GraphInv, StackIsPath
  <2>4. stack[j].file \in Graph!Below(stack[j].file)
    <3>1. CASE j = n
      BY <1>2, <2>1, <2>2, <3>1, BelowContains DEF GraphInv
    <3>2. CASE j # n
      <4>1. f \in Graph!Below(stack[j].file)
        BY <1>2, <3>2 DEF GraphInv, StackIsPath
      <4> QED BY <2>1, <2>2, <2>3, <4>1, BelowCloses DEF GraphInv
    <3> QED BY <3>1, <3>2
  <2> QED BY <1>5, <2>3, <2>4 DEF Graph!Cycle
<1>6. FailureFound'
  <2>1. Graph!Reached' = Graph!Reached /\ (\A h : Graph!Below(h)' = Graph!Below(h)) /\ includes' = includes
    BY <1>1, SameGraph
  <2>2. CASE Graph!Refuse
    BY <1>4, <2>1, <2>2 DEF FailureFound
  <2>3. CASE Graph!Cycle
    BY <1>5, <2>1, <2>3 DEF FailureFound
  <2> QED BY <2>2, <2>3
<1> QED BY <1>3, <1>6 DEF GraphInv

LEMMA LeaveKeeps == ASSUME GraphInv, Graph!Leave PROVE GraphInv'
<1> DEFINE f == Graph!Top.file
           n == Len(stack)
           m == Len(ordered)
<1>1. /\ Graph!Running /\ ~Graph!HasMore /\ UNCHANGED <<includes, root>>
      /\ ordered' = Append(ordered, f) /\ resolved' = resolved \cup {f}
      /\ stack' = SubSeq(stack, 1, n - 1)
      /\ result' = IF n = 1 THEN "ordered" ELSE result
  BY DEF Graph!Leave
<1>2. /\ f \in Files /\ f \in Graph!Reached /\ n \in DOMAIN stack /\ f = stack[n].file
      /\ n \in Nat \ {0} /\ DOMAIN stack = 1..n /\ stack # <<>>
      /\ DOMAIN includes[f] = 1..Len(includes[f]) /\ Len(includes[f]) \in Nat
      /\ stack[n].next \in Nat \ {0} /\ Graph!Top = stack[n]
  BY <1>1, TopOfStack
<1>3. stack \in Seq(Frames) /\ ordered \in Seq(Files) /\ resolved = {ordered[k] : k \in DOMAIN ordered}
      /\ m \in Nat /\ DOMAIN ordered = 1..m
  BY DEF GraphInv, GraphTyped
<1> HIDE DEF f, n, m
<1>4. stack' \in Seq(Frames) /\ Len(stack') = n - 1 /\ DOMAIN stack' = 1..(n - 1)
      /\ \A k \in 1..(n - 1) : stack'[k] = stack[k]
  BY <1>1, <1>2, <1>3 DEF n
<1>5. ordered' \in Seq(Files) /\ DOMAIN ordered' = 1..(m + 1) /\ ordered'[m + 1] = f
      /\ \A k \in 1..m : ordered'[k] = ordered[k]
  BY <1>1, <1>2, <1>3 DEF m
<1>6. \A k \in 1..(n - 1) : stack[k].file # f
  BY <1>2 DEF GraphInv, StackIsPath
<1>7. f \notin resolved
  BY <1>2 DEF GraphInv, StackIsPath
<1>8. \A g \in Graph!Included(f) : g \in resolved
  <2> SUFFICES ASSUME NEW i \in DOMAIN includes[f], includes[f][i] # RefusedFile
               PROVE  includes[f][i] \in resolved
    BY DEF Graph!Included
  <2>1. i \in 1..(stack[n].next - 1)
    BY <1>1, <1>2 DEF Graph!HasMore
  <2>2. \/ includes[f][i] \in resolved \cup {RefusedFile}
        \/ n + 1 \in DOMAIN stack
    BY <1>2, <2>1 DEF GraphInv, WalkedResolved
  <2>3. n + 1 \notin DOMAIN stack
    BY <1>2
  <2> QED BY <2>2, <2>3
<1>9. GraphTyped'
  <2>1. resolved' = {ordered'[k] : k \in DOMAIN ordered'}
    <3>1. 1..(m + 1) = (1..m) \cup {m + 1}
      BY <1>3
    <3> QED BY <1>1, <1>3, <1>5, <3>1
  <2> QED BY <1>1, <1>4, <1>5, <2>1 DEF GraphInv, GraphTyped
<1>10. StackIsPath'
  <2>1. ASSUME NEW k \in DOMAIN stack' PROVE stack'[k].file \in Graph!Reached /\ stack'[k].file \notin resolved'
    <3>1. stack'[k] = stack[k] /\ stack[k].file # f /\ k \in DOMAIN stack
      BY <1>2, <1>4, <1>6
    <3> QED BY <1>1, <3>1 DEF GraphInv, StackIsPath
  <2>2. \A j, k \in DOMAIN stack' : j < k => /\ stack'[k].file # stack'[j].file
                                             /\ stack'[k].file \in Graph!Below(stack'[j].file)
    BY <1>2, <1>4 DEF GraphInv, StackIsPath
  <2>3. Graph!Reached' = Graph!Reached /\ \A g : Graph!Below(g)' = Graph!Below(g)
    BY <1>1, SameGraph
  <2> QED BY <2>1, <2>2, <2>3, Zenon DEF StackIsPath
<1>11. WalkedResolved'
  <2> SUFFICES ASSUME NEW k \in DOMAIN stack', NEW i \in 1..(stack'[k].next - 1),
                      i \in DOMAIN includes[stack'[k].file]
               PROVE  \/ includes[stack'[k].file][i] \in resolved' \cup {RefusedFile}
                      \/ k + 1 \in DOMAIN stack' /\ includes[stack'[k].file][i] = stack'[k + 1].file
    BY <1>1 DEF WalkedResolved
  <2>1. k \in DOMAIN stack /\ stack'[k] = stack[k] /\ k \in 1..(n - 1)
    BY <1>2, <1>4
  <2>2. \/ includes[stack[k].file][i] \in resolved \cup {RefusedFile}
        \/ includes[stack[k].file][i] = stack[k + 1].file
    BY <2>1 DEF GraphInv, WalkedResolved
  <2>3. CASE k + 1 = n
    BY <1>1, <1>2, <2>1, <2>2, <2>3
  <2>4. CASE k + 1 # n
    <3>1. k + 1 \in 1..(n - 1)
      BY <1>2, <2>1, <2>4
    <3> QED BY <1>1, <1>4, <2>1, <2>2, <3>1
  <2> QED BY <2>3, <2>4
<1>12. OrderedSoFar'
  <2>1. resolved' \subseteq Graph!Reached
    BY <1>1, <1>2 DEF GraphInv, OrderedSoFar
  <2>2. \A k \in 1..m : ordered[k] \in resolved
    BY <1>3
  <2>3. \A j, k \in DOMAIN ordered' : j # k => ordered'[j] # ordered'[k]
    BY <1>3, <1>5, <1>7, <2>2 DEF GraphInv, OrderedSoFar
  <2>4. ASSUME NEW k \in DOMAIN ordered', NEW g \in Graph!Included(ordered'[k])
        PROVE  \E j \in DOMAIN ordered' : j < k /\ ordered'[j] = g
    <3>1. CASE k \in 1..m
      <4>1. PICK j \in DOMAIN ordered : j < k /\ ordered[j] = g
        BY <1>3, <1>5, <2>4, <3>1 DEF GraphInv, OrderedSoFar
      <4> QED BY <1>3, <1>5, <4>1
    <3>2. CASE k = m + 1
      <4>1. g \in resolved
        BY <1>5, <1>8, <2>4, <3>2
      <4>2. PICK j \in 1..m : ordered[j] = g
        BY <1>3, <4>1
      <4> QED BY <1>3, <1>5, <3>2, <4>2
    <3> QED BY <1>3, <1>5, <3>1, <3>2
  <2>5. Graph!Reached' = Graph!Reached /\ \A h : Graph!Included(h)' = Graph!Included(h)
    BY <1>1, SameGraph
  <2>6. \A k \in DOMAIN ordered' : Graph!Included(ordered[k])' = Graph!Included(ordered'[k])
    BY <2>5
  <2> HIDE DEF m
  <2> QED BY <2>1, <2>3, <2>4, <2>5, <2>6 DEF OrderedSoFar
<1>13. RootLast'
  <2>1. stack[1].file = root /\ result = "running"
    BY <1>1, <1>2 DEF GraphInv, RootLast, Graph!Running
  <2>2. CASE n = 1
    <3>1. stack' = <<>> /\ root \in resolved'
      BY <1>1, <1>2, <1>4, <2>1, <2>2
    <3> QED BY <1>1, <3>1 DEF RootLast
  <2>3. CASE n # 1
    <3>1. stack'[1] = stack[1] /\ result' = "running"
      BY <1>1, <1>2, <1>4, <2>1, <2>3
    <3> QED BY <1>1, <2>1, <3>1 DEF RootLast
  <2> QED BY <2>2, <2>3
<1>14. FailureFound'
  BY <1>1 DEF FailureFound, Graph!Running
<1> QED BY <1>9, <1>10, <1>11, <1>12, <1>13, <1>14 DEF GraphInv

LEMMA GraphStart ==
  ASSUME NEW graph \in [Files -> Seq(Files \cup {RefusedFile})], Graph!Start(graph, 1)
  PROVE  GraphInv
<1> DEFINE entered == [file |-> 1, next |-> 1]
<1>1. stack = <<entered>> /\ includes = graph /\ root = 1 /\ resolved = {} /\ ordered = <<>> /\ result = "running"
  BY DEF Graph!Start, Graph!Pushed
<1>2. entered \in Frames /\ 1 \in Files /\ entered.file = 1 /\ entered.next = 1
  BY PartsAssumption DEF Frames
<1> HIDE DEF entered
<1>3. stack \in Seq(Frames) /\ DOMAIN stack = {1} /\ stack[1] = entered
  BY <1>1, <1>2
<1>4. GraphTyped
  BY <1>1, <1>2, <1>3 DEF GraphTyped
<1>5. StackIsPath
  BY <1>1, <1>2, <1>3 DEF StackIsPath, Graph!Reached
<1>6. WalkedResolved
  BY <1>2, <1>3 DEF WalkedResolved
<1>7. OrderedSoFar
  BY <1>1 DEF OrderedSoFar
<1>8. RootLast /\ FailureFound
  BY <1>1, <1>2, <1>3 DEF RootLast, FailureFound
<1> QED BY <1>4, <1>5, <1>6, <1>7, <1>8 DEF GraphInv

LEMMA GraphNext == ASSUME GraphInv, [Graph!Next]_(Graph!vars) PROVE GraphInv'
<1>1. CASE UNCHANGED Graph!vars
  <2>1. UNCHANGED <<includes, root, stack, resolved, ordered, result>>
    BY <1>1 DEF Graph!vars
  <2> QED BY <2>1, SameGraph DEF GraphInv, GraphTyped, StackIsPath, WalkedResolved, OrderedSoFar, RootLast, FailureFound
<1> QED BY <1>1, EnterKeeps, SkipKeeps, FailureKeeps, LeaveKeeps DEF Graph!Next

LEMMA SizeOfGraph == \A S : Graph!Cardinality(S) = Cardinality(S)
BY DEF Graph!Cardinality, Cardinality

\* A finished walk has ordered what the root reaches: that set is closed under
\* includes, because the order holds what each of its files includes.
LEMMA OrderedWhole ==
  ASSUME GraphInv, result = "ordered"
  PROVE  /\ resolved = Graph!Reached
         /\ \A j, k \in DOMAIN ordered : ordered[j] \in Graph!Below(ordered[k]) => j < k
<1>1. ordered \in Seq(Files) /\ resolved = {ordered[k] : k \in DOMAIN ordered} /\ root \in resolved
  BY DEF GraphInv, GraphTyped, RootLast
<1>2. DOMAIN ordered = 1..Len(ordered) /\ Len(ordered) \in Nat /\ resolved \subseteq Files
  BY <1>1
<1>3. \A f \in resolved : Graph!Included(f) \subseteq resolved
  BY <1>1 DEF GraphInv, OrderedSoFar
<1>4. Graph!Below(root) \subseteq resolved
  BY <1>1, <1>2, <1>3, BelowLeast
<1>5. resolved = Graph!Reached
  BY <1>1, <1>4 DEF GraphInv, OrderedSoFar, Graph!Reached
<1>6. ASSUME NEW j \in DOMAIN ordered, NEW k \in DOMAIN ordered, ordered[j] \in Graph!Below(ordered[k])
      PROVE  j < k
  <2> DEFINE before == {ordered[i] : i \in {h \in DOMAIN ordered : h < k}}
  <2>1. before \subseteq Files /\ Graph!Included(ordered[k]) \subseteq before
    BY <1>1, <1>2 DEF GraphInv, OrderedSoFar
  <2>2. ASSUME NEW f \in before, NEW g \in Graph!Included(f) PROVE g \in before
    <3>1. PICK i \in DOMAIN ordered : i < k /\ f = ordered[i]
      OBVIOUS
    <3>2. PICK h \in DOMAIN ordered : h < i /\ ordered[h] = g
      BY <2>2, <3>1 DEF GraphInv, OrderedSoFar
    <3> QED BY <1>2, <3>1, <3>2
  <2> HIDE DEF before
  <2>3. ordered[j] \in before
    BY <1>6, <2>1, <2>2, BelowLeast
  <2>4. PICK i \in DOMAIN ordered : i < k /\ ordered[j] = ordered[i]
    BY <2>3 DEF before
  <2> QED BY <2>4 DEF GraphInv, OrderedSoFar
<1> QED BY <1>5, <1>6

LEMMA OrderedOnce ==
  ASSUME GraphInv PROVE Len(ordered) = Cardinality(resolved)
<1>1. ordered \in Seq(Files) /\ resolved = {ordered[k] : k \in DOMAIN ordered}
  BY DEF GraphInv, GraphTyped
<1>2. DOMAIN ordered = 1..Len(ordered) /\ Len(ordered) \in Nat
  BY <1>1
<1>3. \A j, k \in 1..Len(ordered) : j # k => ordered[j] # ordered[k]
  BY <1>2 DEF GraphInv, OrderedSoFar
<1>4. ordered \in [1..Len(ordered) -> resolved]
  BY <1>1, <1>2
<1>5. ExistsBijection(1..Len(ordered), resolved)
  BY <1>1, <1>2, <1>3, <1>4 DEF ExistsBijection, Bijection, Injection, IsInjective, Surjection
<1> QED BY <1>2, <1>5, FS_CountingElements

LEMMA GraphSound == GraphInv => Graph!OrderIsSound
<1> SUFFICES ASSUME GraphInv PROVE Graph!OrderIsSound
  OBVIOUS
<1>1. resolved = {ordered[k] : k \in DOMAIN ordered}
  BY DEF GraphInv, GraphTyped
<1>2. ASSUME result = "ordered"
      PROVE  /\ {ordered[k] : k \in DOMAIN ordered} = Graph!Reached
             /\ Len(ordered) = Graph!Cardinality(Graph!Reached)
             /\ \A j, k \in DOMAIN ordered : ordered[j] \in Graph!Below(ordered[k]) => j < k
  BY <1>1, <1>2, OrderedWhole, OrderedOnce, SizeOfGraph
<1> QED BY <1>2 DEF GraphInv, FailureFound, Graph!OrderIsSound

\* The files of a dialect, for any graph of includes over any set of files: a
\* walk that succeeds has ordered exactly the files its root reaches, each
\* once and after all it includes, so a dialect with a cycle is never loaded;
\* one that fails did find a cycle, or a refused include, in reach.
THEOREM IncludesOrdered == PartsSpec => []Graph!OrderIsSound
<1>1. PartsInit => GraphInv
  <2> SUFFICES ASSUME PartsInit PROVE GraphInv
    OBVIOUS
  <2>1. IncludeLists \subseteq Seq(Files \cup {RefusedFile})
    <3> SUFFICES ASSUME NEW n \in 0..2, NEW s \in [1..n -> Files \cup {RefusedFile}]
                 PROVE  s \in Seq(Files \cup {RefusedFile})
      BY DEF IncludeLists
    <3> QED OBVIOUS
  <2>2. [Files -> IncludeLists] \subseteq [Files -> Seq(Files \cup {RefusedFile})]
    BY <2>1
  <2>3. [f \in Files |-> <<>>] \in [Files -> Seq(Files \cup {RefusedFile})]
    OBVIOUS
  <2>4. CASE kind = "includes"
    BY <2>2, <2>4, GraphStart DEF PartsInit
  <2>5. CASE kind # "includes"
    BY <2>3, <2>5, GraphStart DEF PartsInit
  <2> QED BY <2>4, <2>5
<1>2. ASSUME [PartsNext]_parts PROVE [Graph!Next]_(Graph!vars)
  BY <1>2 DEF PartsNext, parts, includeVars, Graph!vars
<1>3. GraphInv /\ [PartsNext]_parts => GraphInv'
  BY <1>2, GraphNext
<1> QED BY <1>1, <1>3, GraphSound, PTL DEF PartsSpec
-----------------------------------------------------------------------------
(* Profiles.  For any profile nodes, routes and clashes of dialects.  A      *)
(* splitter is compared with the profiles it was made of only when a deploy  *)
(* is reconciled; in the midst of one it may be older or newer than they     *)
(* are.  What makes the comparison sound is that a node that was replaced    *)
(* never comes back.                                                         *)

ProfileRecords == [id : Profs \cup {0}, age : Nat, valid : BOOLEAN, dialect : Dialects \cup {0, 1}]

ProfilesTyped ==
  /\ profileEdits \in Nat
  /\ routed \subseteq Profs
  /\ profileNodes \in [Profs -> ProfileRecords]
  /\ \A i \in Profs : profileNodes[i] # Prof!Missing =>
       profileNodes[i].id = i /\ profileNodes[i].age <= profileEdits
  /\ profile \in ProfileRecords /\ members \subseteq ProfileRecords
  /\ \A m \in members : m # Prof!Missing /\ m.age <= profileEdits

\* The members are those a connection with this default has now.
MembersStand == profileNodes[1] = profile /\ members = Prof!ActiveWith(profile)

\* One of them was replaced, or one was added, for good until the deploy is
\* reconciled: it stops nodes only before it creates any.
MemberGone == \E m \in members : m.id \in Profs /\ profileNodes[m.id] # m
MemberAdded == \E i \in routed : profileNodes[i] # Prof!Missing /\ profileNodes[i] \notin members
MembersPassed ==
  \/ profileDeploy \in {"stopping", "starting"} /\ MemberGone
  \/ profileDeploy = "starting" /\ MemberAdded

SplitterInv ==
  /\ codec = profile
  /\ profileActive => /\ profile.valid
                      /\ MembersStand \/ MembersPassed
                      /\ splitter \in {{}, members} \/ MembersPassed
                      /\ fatal /\ profileTransport => Prof!Conflict(members) \/ MembersPassed
  /\ ~profileActive => ~profileTransport /\ splitter = {}

\* The status of a running connection is its transport's, but for the errors
\* over it; and a route error is gone unless a route is broken.
StatusInv ==
  /\ profileTransport => /\ link # "none"
                         /\ status \in {link, "conflict", "routes"}
                         /\ status = "routes" => replaced \in {link, "conflict"}
  /\ link # "routes"
  /\ profileDeploy = "done" /\ profileActive /\ profileTransport /\ status = "routes" =>
       \/ \E i \in routed : ~profileNodes[i].valid
       \/ Prof!Conflict(Prof!ActiveWith(profileNodes[1]))

ProfileInv == ProfilesTyped /\ SplitterInv /\ StatusInv

-----------------------------------------------------------------------------
LEMMA ActiveMembers ==
  ASSUME ProfilesTyped
  PROVE  /\ \A dflt, m : m \in Prof!ActiveWith(dflt) <=>
              m = dflt \/ (m # Prof!Missing /\ \E i \in routed : m = profileNodes[i])
         /\ \A i \in routed : i \in Profs
BY DEF ProfilesTyped, Prof!ActiveWith, Prof!Resolved

LEMMA StandingIsNotPassed ==
  ASSUME ProfilesTyped, MembersStand PROVE ~MembersPassed
<1>1. 1 \in Profs
  BY PartsAssumption
<1>2. ASSUME NEW m \in members PROVE profileNodes[m.id] = m
  <2>1. m = profileNodes[1] \/ \E i \in routed : m = profileNodes[i]
    BY ActiveMembers DEF MembersStand
  <2>2. PICK i \in Profs : m = profileNodes[i]
    BY <1>1, <2>1, ActiveMembers
  <2>3. m # Prof!Missing
    BY DEF ProfilesTyped
  <2> QED BY <2>2, <2>3 DEF ProfilesTyped
<1>3. ASSUME NEW i \in routed, profileNodes[i] # Prof!Missing PROVE profileNodes[i] \in members
  BY <1>3, ActiveMembers DEF MembersStand
<1> QED BY <1>2, <1>3 DEF MembersPassed, MemberGone, MemberAdded

\* While the nodes and the connection stay, so do the members and their standing.
LEMMA SameMembers ==
  ASSUME UNCHANGED <<routed, profileNodes>>
  PROVE  /\ \A dflt : Prof!ActiveWith(dflt)' = Prof!ActiveWith(dflt)
         /\ UNCHANGED <<profile, members>> => MembersStand' = MembersStand
         /\ UNCHANGED <<profileDeploy, members>> => MembersPassed' = MembersPassed
         /\ UNCHANGED <<profile, members, profileEdits>> => ProfilesTyped' = ProfilesTyped
BY DEF Prof!ActiveWith, Prof!Resolved, MembersStand, MembersPassed, MemberGone, MemberAdded, ProfilesTyped

LEMMA BuildSplitterKeeps == ASSUME ProfileInv, Prof!BuildSplitter PROVE ProfileInv'
<1>1. /\ profileActive /\ profileTransport
      /\ UNCHANGED <<routed, profileNodes, profile, codec, members, profileActive, profileTransport,
                     replaced, link, profileDeploy, profileEdits>>
  BY DEF Prof!BuildSplitter
<1>2. CASE Prof!Conflict(Prof!ActiveWith(profile)) /\ status' = "conflict" /\ UNCHANGED splitter
  <2>1. Prof!Conflict(members) \/ MembersPassed
    BY <1>1, <1>2 DEF ProfileInv, SplitterInv, MembersStand
  <2>2. SplitterInv'
    BY <1>1, <1>2, <2>1, SameMembers DEF ProfileInv, SplitterInv, Prof!Conflict
  <2>3. StatusInv'
    BY <1>1, <1>2 DEF ProfileInv, StatusInv
  <2> QED BY <1>1, <2>2, <2>3, SameMembers DEF ProfileInv
<1>3. CASE splitter' = Prof!ActiveWith(profile) /\ UNCHANGED <<fatal, status>>
  <2>1. splitter' = members \/ MembersPassed
    BY <1>1, <1>3 DEF ProfileInv, SplitterInv, MembersStand
  <2>2. SplitterInv'
    BY <1>1, <1>3, <2>1, SameMembers DEF ProfileInv, SplitterInv, Prof!Conflict
  <2>3. StatusInv'
    BY <1>1, <1>3, SameMembers DEF ProfileInv, StatusInv, Prof!Conflict
  <2> QED BY <1>1, <2>2, <2>3, SameMembers DEF ProfileInv
<1> QED BY <1>2, <1>3 DEF Prof!BuildSplitter

LEMMA UsesKeeps ==
  ASSUME ProfileInv, UNCHANGED <<routed, profileNodes, profile, codec, members, profileActive,
           profileTransport, splitter, fatal, status, replaced, link, profileDeploy, profileEdits>>
  PROVE  ProfileInv'
<1>1. ProfilesTyped'
  BY SameMembers DEF ProfileInv
<1>2. SplitterInv'
  BY SameMembers DEF ProfileInv, SplitterInv, Prof!Conflict
<1>3. StatusInv'
  BY SameMembers DEF ProfileInv, StatusInv, Prof!Conflict
<1> QED BY <1>1, <1>2, <1>3 DEF ProfileInv

LEMMA TransportStartsKeeps == ASSUME ProfileInv, Prof!TransportStarts PROVE ProfileInv'
<1>1. /\ profileActive /\ profileTransport' = TRUE /\ fatal' = FALSE
      /\ status' = "connecting" /\ link' = "connecting"
      /\ UNCHANGED <<routed, profileNodes, profile, codec, members, profileActive, splitter,
                     replaced, profileDeploy, profileEdits>>
  BY DEF Prof!TransportStarts
<1>2. SplitterInv'
  BY <1>1, SameMembers DEF ProfileInv, SplitterInv
<1>3. StatusInv'
  BY <1>1 DEF StatusInv
<1> QED BY <1>1, <1>2, <1>3, SameMembers DEF ProfileInv

LEMMA TransportEventKeeps ==
  ASSUME ProfileInv, NEW event \in {"connected", "reconnecting", "error"}, Prof!TransportEvent(event)
  PROVE  ProfileInv'
<1>1. /\ profileTransport /\ status' = event /\ link' = event /\ splitter' \in {{}, splitter}
      /\ UNCHANGED <<routed, profileNodes, profile, codec, members, profileActive, profileTransport,
                     fatal, replaced, profileDeploy, profileEdits>>
  BY DEF Prof!TransportEvent
<1>2. SplitterInv'
  BY <1>1, SameMembers DEF ProfileInv, SplitterInv, Prof!Conflict
<1>3. StatusInv'
  BY <1>1 DEF StatusInv
<1> QED BY <1>1, <1>2, <1>3, SameMembers DEF ProfileInv

\* A member that is removed, or replaced, is gone: what is created is newer.
LEMMA RemoveKeeps == ASSUME ProfileInv, NEW id \in Profs, Prof!Remove(id) PROVE ProfileInv'
<1>1. /\ profileDeploy \in {"done", "stopping"} /\ profileNodes[id] # Prof!Missing
      /\ profileNodes' = [profileNodes EXCEPT ![id] = Prof!Missing]
      /\ profileEdits' = profileEdits + 1 /\ profileDeploy' = "stopping"
      /\ UNCHANGED <<routed, profile, codec, members, profileActive, profileTransport, splitter,
                     fatal, status, replaced, link>>
  BY DEF Prof!Remove
<1>2. 1 \in Profs /\ profileNodes \in [Profs -> ProfileRecords]
  BY PartsAssumption DEF ProfileInv, ProfilesTyped
<1>3. \A i \in Profs : profileNodes'[i] = IF i = id THEN Prof!Missing ELSE profileNodes[i]
  BY <1>1, <1>2
<1>4. ProfilesTyped'
  <2>1. Prof!Missing \in ProfileRecords
    BY DEF Prof!Missing, ProfileRecords
  <2>2. profileNodes' \in [Profs -> ProfileRecords]
    BY <1>1, <1>2, <2>1
  <2>3. profileEdits \in Nat /\ profileEdits' = profileEdits + 1
    BY <1>1 DEF ProfileInv, ProfilesTyped
  <2>4. \A m \in ProfileRecords : m.age \in Nat
    BY DEF ProfileRecords
  <2>5. \A i \in Profs : profileNodes'[i] # Prof!Missing =>
          profileNodes'[i].id = i /\ profileNodes'[i].age <= profileEdits'
    <3> SUFFICES ASSUME NEW i \in Profs, profileNodes'[i] # Prof!Missing
                 PROVE  profileNodes'[i].id = i /\ profileNodes'[i].age <= profileEdits'
      OBVIOUS
    <3>1. profileNodes'[i] = profileNodes[i] /\ profileNodes[i].age \in Nat
      BY <1>2, <1>3, <2>4
    <3>2. profileNodes[i].id = i /\ profileNodes[i].age <= profileEdits
      BY <3>1 DEF ProfileInv, ProfilesTyped
    <3> QED BY <2>3, <3>1, <3>2
  <2>6. \A m \in members : m \in ProfileRecords /\ m # Prof!Missing /\ m.age <= profileEdits'
    BY <2>3, <2>4 DEF ProfileInv, ProfilesTyped
  <2>7. members' = members /\ profile' = profile /\ routed' = routed
    BY <1>1
  <2> QED BY <2>2, <2>3, <2>5, <2>6, <2>7 DEF ProfileInv, ProfilesTyped, Prof!Missing
<1>5. ASSUME MemberGone PROVE MemberGone'
  <2>1. PICK m \in members : m.id \in Profs /\ profileNodes[m.id] # m
    BY <1>5 DEF MemberGone
  <2>2. profileNodes'[m.id] # m
    BY <1>3, <2>1 DEF ProfileInv, ProfilesTyped
  <2> QED BY <1>1, <2>1, <2>2 DEF MemberGone
<1>6. ASSUME MembersStand PROVE MembersStand' \/ MemberGone'
  <2>1. CASE profileNodes[id] \in members
    <3>1. profileNodes[id].id = id
      BY <1>1 DEF ProfileInv, ProfilesTyped
    <3> QED BY <1>1, <1>3, <2>1, <3>1 DEF MemberGone
  <2>2. CASE profileNodes[id] \notin members
    <3>1. id # 1 /\ id \notin routed
      BY <1>1, <1>6, <2>2, ActiveMembers DEF MembersStand, ProfileInv
    <3>2. \A i \in routed \cup {1} : profileNodes'[i] = profileNodes[i]
      BY <1>2, <1>3, <3>1, ActiveMembers DEF ProfileInv
    <3>3. \A m : m \in Prof!ActiveWith(profile)' <=> m \in Prof!ActiveWith(profile)
      BY <1>1, <1>4, <3>2, ActiveMembers DEF ProfileInv, Prof!ActiveWith, Prof!Resolved
    <3>4. Prof!ActiveWith(profile)' = Prof!ActiveWith(profile)
      BY <3>3 DEF Prof!ActiveWith
    <3> QED BY <1>1, <1>6, <3>2, <3>4 DEF MembersStand
  <2> QED BY <2>1, <2>2
<1>7. MembersStand \/ MembersPassed => MembersStand' \/ MembersPassed'
  BY <1>1, <1>5, <1>6 DEF MembersPassed
<1>8. MembersPassed => MembersPassed'
  BY <1>1, <1>5 DEF MembersPassed
<1>9. SplitterInv'
  BY <1>1, <1>7, <1>8 DEF ProfileInv, SplitterInv, Prof!Conflict
<1>10. StatusInv'
  BY <1>1 DEF ProfileInv, StatusInv
<1> QED BY <1>4, <1>9, <1>10 DEF ProfileInv

LEMMA CreateKeeps ==
  ASSUME ProfileInv, NEW id \in Profs, NEW p \in Prof!NewNodes(id), Prof!Create(id, p) PROVE ProfileInv'
<1>1. /\ profileNodes[id] = Prof!Missing
      /\ profileNodes' = [profileNodes EXCEPT ![id] = p]
      /\ profileEdits' = profileEdits + 1 /\ profileDeploy' = "starting"
      /\ UNCHANGED <<routed, profile, codec, members, profileActive, profileTransport, splitter,
                     fatal, status, replaced, link>>
  BY DEF Prof!Create
<1>2. 1 \in Profs /\ profileNodes \in [Profs -> ProfileRecords] /\ profileEdits \in Nat
  BY PartsAssumption DEF ProfileInv, ProfilesTyped
<1>3. p \in ProfileRecords /\ p.id = id /\ p.age = profileEdits + 1 /\ p # Prof!Missing
  <2>1. profileEdits + 1 \in Nat /\ profileEdits + 1 # 0
    BY <1>2
  <2>2. PICK v \in BOOLEAN, d \in Dialects \cup {0} :
          p = [id |-> id, age |-> profileEdits + 1, valid |-> v, dialect |-> d]
    BY DEF Prof!NewNodes
  <2>3. p.id = id /\ p.age = profileEdits + 1 /\ p \in ProfileRecords
    BY <2>1, <2>2 DEF ProfileRecords
  <2>4. Prof!Missing.age = 0
    BY DEF Prof!Missing
  <2> QED BY <2>1, <2>3, <2>4
<1>4. \A i \in Profs : profileNodes'[i] = IF i = id THEN p ELSE profileNodes[i]
  BY <1>1, <1>2
<1>5. \A m \in ProfileRecords : m.age \in Nat
  BY DEF ProfileRecords
<1>6. \A m \in members : m # p /\ m \in ProfileRecords /\ m # Prof!Missing /\ m.age <= profileEdits'
  BY <1>1, <1>2, <1>3, <1>5 DEF ProfileInv, ProfilesTyped
<1>7. ProfilesTyped'
  <2>1. profileNodes' \in [Profs -> ProfileRecords]
    BY <1>1, <1>2, <1>3
  <2>2. \A i \in Profs : profileNodes'[i] # Prof!Missing =>
          profileNodes'[i].id = i /\ profileNodes'[i].age <= profileEdits'
    <3> SUFFICES ASSUME NEW i \in Profs, profileNodes'[i] # Prof!Missing
                 PROVE  profileNodes'[i].id = i /\ profileNodes'[i].age <= profileEdits'
      OBVIOUS
    <3>1. CASE i = id
      BY <1>1, <1>2, <1>3, <1>4, <3>1
    <3>2. CASE i # id
      <4>1. profileNodes'[i] = profileNodes[i] /\ profileNodes[i].age \in Nat
        BY <1>2, <1>4, <1>5, <3>2
      <4>2. profileNodes[i].id = i /\ profileNodes[i].age <= profileEdits
        BY <4>1 DEF ProfileInv, ProfilesTyped
      <4> QED BY <1>1, <1>2, <4>1, <4>2
    <3> QED BY <3>1, <3>2
  <2>3. members' = members /\ profile' = profile /\ routed' = routed /\ profileEdits' \in Nat
    BY <1>1, <1>2
  <2> QED BY <1>6, <2>1, <2>2, <2>3 DEF ProfileInv, ProfilesTyped, Prof!Missing
<1>8. ASSUME MemberGone PROVE MemberGone'
  <2>1. PICK m \in members : m.id \in Profs /\ profileNodes[m.id] # m
    BY <1>8 DEF MemberGone
  <2>2. profileNodes'[m.id] # m
    BY <1>4, <1>6, <2>1
  <2> QED BY <1>1, <2>1, <2>2 DEF MemberGone
<1>9. ASSUME MemberAdded PROVE MemberAdded'
  <2>1. PICK i \in routed : profileNodes[i] # Prof!Missing /\ profileNodes[i] \notin members
    BY <1>9 DEF MemberAdded
  <2>2. profileNodes'[i] = profileNodes[i]
    BY <1>1, <1>4, <2>1, ActiveMembers DEF ProfileInv
  <2> QED BY <1>1, <2>1, <2>2 DEF MemberAdded, Prof!Missing
<1>10. ASSUME MembersStand PROVE MembersStand' \/ MemberAdded'
  <2>1. CASE id \in routed
    BY <1>1, <1>3, <1>4, <1>6, <2>1 DEF MemberAdded, Prof!Missing
  <2>2. CASE id \notin routed
    <3>1. id # 1
      BY <1>1, <1>10, ActiveMembers DEF MembersStand, ProfileInv, ProfilesTyped
    <3>2. \A i \in routed \cup {1} : profileNodes'[i] = profileNodes[i]
      BY <1>2, <1>4, <2>2, <3>1, ActiveMembers DEF ProfileInv
    <3>3. \A m : m \in Prof!ActiveWith(profile)' <=> m \in Prof!ActiveWith(profile)
      BY <1>1, <1>7, <3>2, ActiveMembers DEF ProfileInv, Prof!ActiveWith, Prof!Resolved
    <3>4. Prof!ActiveWith(profile)' = Prof!ActiveWith(profile)
      BY <3>3 DEF Prof!ActiveWith
    <3> QED BY <1>1, <1>10, <3>2, <3>4 DEF MembersStand
  <2> QED BY <2>1, <2>2
<1>11. MembersStand \/ MembersPassed => MembersStand' \/ MembersPassed'
  BY <1>1, <1>8, <1>9, <1>10 DEF MembersPassed
<1>12. MembersPassed => MembersPassed'
  BY <1>1, <1>8, <1>9 DEF MembersPassed
<1>13. SplitterInv'
  BY <1>1, <1>11, <1>12 DEF ProfileInv, SplitterInv, Prof!Conflict
<1>14. StatusInv'
  BY <1>1 DEF ProfileInv, StatusInv
<1> QED BY <1>7, <1>13, <1>14 DEF ProfileInv

LEMMA FailClosedKeeps == ASSUME ProfileInv, Prof!FailClosed PROVE ProfileInv'
<1>1. /\ profileActive' = FALSE /\ profileTransport' = FALSE /\ splitter' = {}
      /\ members' \in {{}, members}
      /\ UNCHANGED <<routed, profileNodes, profile, codec, replaced, link, profileEdits>>
  BY DEF Prof!FailClosed
<1>2. ProfilesTyped'
  BY <1>1 DEF ProfileInv, ProfilesTyped, Prof!Missing
<1>3. SplitterInv'
  BY <1>1 DEF ProfileInv, SplitterInv
<1>4. StatusInv'
  BY <1>1 DEF ProfileInv, StatusInv
<1> QED BY <1>2, <1>3, <1>4 DEF ProfileInv

\* The members, the splitter and the status once the profiles are reconciled.
LEMMA ReconciledParts ==
  ASSUME Prof!Reconcile
  PROVE  /\ profileNodes[1].valid
         /\ profile' = profileNodes[1]
         /\ codec' = IF ~profileActive \/ profileNodes[1] # profile THEN profileNodes[1] ELSE codec
         /\ members' = Prof!ActiveWith(profileNodes[1])
         /\ \/ profileActive /\ profileNodes[1] # profile /\ splitter' = {} /\ ~fatal'
            \/ profileActive /\ members # members' /\ splitter' = {} /\ ~fatal'
            \/ profileActive /\ profileNodes[1] = profile /\ members = members' /\ splitter' = splitter
               /\ (fatal' => fatal)
            \/ ~profileActive /\ splitter' = splitter
         /\ Prof!ValidateRoutes(Prof!ActiveWith(profileNodes[1]))
         /\ profileActive' = TRUE /\ profileDeploy' = "done"
         /\ UNCHANGED <<routed, profileNodes, profileTransport, link, profileEdits>>
<1> DEFINE now == Prof!ActiveWith(profileNodes[1])
           rebuilt == ~profileActive \/ profileNodes[1] # profile
           before == IF profileActive THEN members ELSE now
           reset == (profileActive /\ rebuilt) \/ now # before
<1>1. /\ profileNodes[1].valid /\ profile' = profileNodes[1]
      /\ codec' = IF rebuilt THEN profileNodes[1] ELSE codec
      /\ members' = IF now = before THEN before ELSE now
      /\ splitter' = IF reset THEN {} ELSE splitter
      /\ fatal' = (fatal /\ ~reset)
      /\ Prof!ValidateRoutes(now)
      /\ profileActive' = TRUE /\ profileDeploy' = "done"
      /\ UNCHANGED <<routed, profileNodes, profileTransport, link, profileEdits>>
  BY DEF Prof!Reconcile, Prof!Main, Prof!SameSet
<1>2. members' = now
  BY <1>1
<1>3. reset => splitter' = {} /\ ~fatal'
  BY <1>1
<1>4. ~reset => splitter' = splitter /\ (fatal' => fatal)
  BY <1>1
<1>5. profileActive => (reset <=> profileNodes[1] # profile \/ now # members)
  OBVIOUS
<1>6. ~profileActive => ~reset
  OBVIOUS
<1> HIDE DEF now, reset
<1>7. codec' = IF ~profileActive \/ profileNodes[1] # profile THEN profileNodes[1] ELSE codec
  BY <1>1
<1> QED BY <1>1, <1>2, <1>3, <1>4, <1>5, <1>6, <1>7 DEF now

LEMMA ReconcileKeeps == ASSUME ProfileInv, Prof!Reconcile PROVE ProfileInv'
<1> DEFINE now == Prof!ActiveWith(profileNodes[1])
<1>1. /\ profileNodes[1].valid /\ profile' = profileNodes[1] /\ members' = now
      /\ profileActive' = TRUE /\ profileDeploy' = "done"
      /\ UNCHANGED <<routed, profileNodes, profileTransport, link, profileEdits>>
  BY ReconciledParts
<1>2. 1 \in Profs /\ profileNodes[1] # Prof!Missing
  BY <1>1, PartsAssumption DEF Prof!Missing
<1>3. ProfilesTyped'
  <2>1. \A m \in now : \E i \in Profs : m = profileNodes[i] /\ m # Prof!Missing
    BY <1>2, ActiveMembers DEF ProfileInv
  <2>2. \A m \in now : m \in ProfileRecords /\ m # Prof!Missing /\ m.age <= profileEdits
    BY <2>1 DEF ProfileInv, ProfilesTyped
  <2>3. profileNodes[1] \in ProfileRecords
    BY <1>2 DEF ProfileInv, ProfilesTyped
  <2> HIDE DEF now
  <2> QED BY <1>1, <2>2, <2>3 DEF ProfileInv, ProfilesTyped, Prof!Missing
<1>4. MembersStand'
  BY <1>1, SameMembers DEF MembersStand
<1>5. ASSUME profileActive, profileNodes[1] = profile, members = members' PROVE ~MembersPassed
  <2>1. MembersStand
    BY <1>1, <1>5 DEF MembersStand
  <2> QED BY <2>1, StandingIsNotPassed DEF ProfileInv
<1>6. codec' = profile'
  BY <1>1, ReconciledParts DEF ProfileInv, SplitterInv
<1>7. splitter' \in {{}, members'}
  BY <1>1, <1>5, ReconciledParts DEF ProfileInv, SplitterInv
<1>8. fatal' /\ profileTransport => Prof!Conflict(now)
  BY <1>1, <1>5, ReconciledParts DEF ProfileInv, SplitterInv
<1>9. SplitterInv'
  BY <1>1, <1>4, <1>6, <1>7, <1>8 DEF SplitterInv, Prof!Conflict
<1>10. StatusInv'
  <2>1. CASE (\E i \in routed : ~profileNodes[i].valid) \/ Prof!Conflict(now)
    <3>1. status' = "routes" /\ replaced' = IF status = "routes" THEN replaced ELSE status
      BY <2>1, ReconciledParts DEF Prof!ValidateRoutes, Prof!Remembered
    <3>2. (\E i \in routed : ~profileNodes[i].valid) \/ Prof!Conflict(now)
      BY <2>1
    <3>3. ((\E i \in routed : ~profileNodes[i].valid) \/ Prof!Conflict(Prof!ActiveWith(profileNodes[1])))'
      BY <1>1, <3>2, SameMembers DEF Prof!Conflict
    <3> QED BY <1>1, <3>1, <3>3 DEF ProfileInv, StatusInv
  <2>2. CASE ~((\E i \in routed : ~profileNodes[i].valid) \/ Prof!Conflict(now))
    <3>1. status' = IF status = "routes" THEN (IF replaced = "none" THEN "idle" ELSE replaced) ELSE status
      BY <2>2, ReconciledParts DEF Prof!ValidateRoutes
    <3>2. profileTransport => status' \in {link, "conflict"} /\ link # "none" /\ link # "routes"
      BY <3>1 DEF ProfileInv, StatusInv
    <3> QED BY <1>1, <3>2 DEF ProfileInv, StatusInv
  <2> QED BY <2>1, <2>2
<1> QED BY <1>3, <1>9, <1>10 DEF ProfileInv

LEMMA ProfileStart ==
  ASSUME NEW named \in SUBSET Profs, NEW r \in ProfileNodes, Prof!Start(named, r)
  PROVE  ProfileInv
<1>1. PICK there \in SUBSET Profs :
        r = [i \in Profs |-> IF i \in there THEN [id |-> i, age |-> 0, valid |-> TRUE, dialect |-> 1]
                                            ELSE Prof!Missing]
  BY DEF ProfileNodes
<1>2. /\ routed = named /\ profileNodes = r /\ profile = r[1] /\ codec = r[1] /\ profileActive = r[1].valid
      /\ members = Prof!ActiveWith(r[1]) \ {Prof!Missing}
      /\ profileTransport = FALSE /\ splitter = {} /\ fatal = FALSE /\ link = "none"
      /\ profileDeploy = "starting" /\ profileEdits = 0
  BY DEF Prof!Start, Prof!Main
<1>3. 1 \in Profs
  BY PartsAssumption
<1>4. Prof!Missing \in ProfileRecords /\ Prof!Missing.valid = FALSE
      /\ \A i \in Profs : LET p == [id |-> i, age |-> 0, valid |-> TRUE, dialect |-> 1]
                          IN  p \in ProfileRecords /\ p.id = i /\ p.age = 0
  BY DEF Prof!Missing, ProfileRecords
<1>5. \A i \in Profs : r[i] \in ProfileRecords /\ (r[i] # Prof!Missing => r[i].id = i /\ r[i].age = 0)
  BY <1>1, <1>4
<1>6. \A m \in members : \E i \in Profs : m = r[i] /\ m # Prof!Missing
  BY <1>2, <1>3 DEF Prof!ActiveWith, Prof!Resolved
<1>7. ProfilesTyped
  <2>1. r \in [Profs -> ProfileRecords]
    BY <1>1, <1>5
  <2> QED BY <1>2, <1>3, <1>5, <1>6, <2>1 DEF ProfilesTyped
<1>8. profileActive => MembersStand
  <2> SUFFICES ASSUME r[1].valid PROVE MembersStand
    BY <1>2
  <2>1. Prof!Missing \notin Prof!ActiveWith(r[1])
    BY <1>2, <1>4 DEF Prof!ActiveWith, Prof!Resolved
  <2> QED BY <1>2, <2>1 DEF MembersStand
<1>9. SplitterInv
  BY <1>2, <1>8 DEF SplitterInv
<1>10. StatusInv
  BY <1>2 DEF StatusInv
<1> QED BY <1>7, <1>9, <1>10 DEF ProfileInv

LEMMA ProfileNext == ASSUME ProfileInv, [Prof!Next]_(Prof!vars) PROVE ProfileInv'
<1>1. CASE UNCHANGED Prof!vars
  BY <1>1, UsesKeeps DEF Prof!vars
<1>2. ASSUME NEW id \in Profs, Prof!Uses(id) PROVE ProfileInv'
  BY <1>2, UsesKeeps DEF Prof!Uses
<1> QED BY <1>1, <1>2, BuildSplitterKeeps, TransportStartsKeeps, TransportEventKeeps, RemoveKeeps, CreateKeeps,
           FailClosedKeeps, ReconcileKeeps DEF Prof!Next

LEMMA ProfilesCurrent ==
  ProfileInv => Prof!CodecIsOfProfile /\ Prof!SplitterIsCurrent /\ Prof!RouteErrorClears
<1> SUFFICES ASSUME ProfileInv
             PROVE  Prof!CodecIsOfProfile /\ Prof!SplitterIsCurrent /\ Prof!RouteErrorClears
  OBVIOUS
<1>1. Prof!CodecIsOfProfile
  BY DEF ProfileInv, SplitterInv, Prof!CodecIsOfProfile, Prof!CodecOf, Prof!Fresh
<1>2. ASSUME profileDeploy = "done", profileActive PROVE MembersStand /\ ~MembersPassed
  BY <1>2 DEF ProfileInv, SplitterInv, MembersPassed
<1>3. Prof!SplitterIsCurrent
  BY <1>2 DEF ProfileInv, SplitterInv, MembersStand, Prof!SplitterIsCurrent, Prof!Main
<1>4. Prof!RouteErrorClears
  BY DEF ProfileInv, StatusInv, Prof!RouteErrorClears, Prof!RunsClean, Prof!Main
<1> QED BY <1>1, <1>3, <1>4

\* For any profile nodes, routes and dialects that clash, and any deploys that
\* edit, delete and recreate profiles between packets, sends and transport
\* events: a codec is built from the node that stands for its profile, a
\* splitter from the present profiles once a deploy is reconciled, and the
\* error of a broken route is not what a mended one shows.  With the order of
\* includes, what is decoded is decoded with the present definitions.
THEOREM PartsDialectsCurrent == PartsSpec => []DialectsAreCurrent
<1>1. PartsInit => ProfileInv
  <2> SUFFICES ASSUME PartsInit PROVE ProfileInv
    OBVIOUS
  <2>1. CASE kind = "profiles"
    BY <2>1, ProfileStart DEF PartsInit
  <2>2. CASE kind # "profiles"
    <3>1. [i \in Profs |-> Prof!Missing] \in ProfileNodes
      <4> DEFINE node(i) == [id |-> i, age |-> 0, valid |-> TRUE, dialect |-> 1]
                 nodes(there) == [i \in Profs |-> IF i \in there THEN node(i) ELSE Prof!Missing]
      <4>1. ProfileNodes = {nodes(there) : there \in SUBSET Profs}
        BY DEF ProfileNodes
      <4> HIDE DEF node
      <4>2. [i \in Profs |-> Prof!Missing] = nodes({}) /\ {} \in SUBSET Profs
        OBVIOUS
      <4> HIDE DEF nodes
      <4> QED BY <4>1, <4>2
    <3> QED BY <2>2, <3>1, ProfileStart DEF PartsInit
  <2> QED BY <2>1, <2>2
<1>2. ASSUME [PartsNext]_parts PROVE [Prof!Next]_(Prof!vars)
  BY <1>2 DEF PartsNext, parts, profileVars, Prof!vars
<1>3. ProfileInv /\ [PartsNext]_parts => ProfileInv'
  BY <1>2, ProfileNext
<1>4. ProfileInv /\ Graph!OrderIsSound => DialectsAreCurrent
  BY ProfilesCurrent DEF DialectsAreCurrent
<1> QED BY <1>1, <1>3, <1>4, IncludesOrdered, PTL DEF PartsSpec

-----------------------------------------------------------------------------
(* Subscriptions *)

\* Ids are given in order; what a dispatch has gone past was called, unless its
\* filter may suppress a message.
SubsInv ==
  /\ nextId \in Nat /\ wants \in [Subs!SubscriptionIds -> Subs!Filters]
  /\ order \in Seq(Nat)
  /\ \A k \in DOMAIN order : order[k] < nextId /\ order[k] \in Subs!SubscriptionIds
  /\ \A id \in visited : /\ id \in Nat /\ id < nextId /\ id \in Subs!SubscriptionIds
                         /\ Subs!Unrestricted(id) => id \in called

LEMMA Joined ==
  ASSUME NEW s \in Seq(Nat), NEW t \in Seq(Nat)
  PROVE  /\ s \o t \in Seq(Nat)
         /\ \A i \in DOMAIN (s \o t) :
              (\E j \in DOMAIN s : (s \o t)[i] = s[j]) \/ (\E j \in DOMAIN t : (s \o t)[i] = t[j])
<1>1. s \o t \in Seq(Nat) /\ Len(s \o t) = Len(s) + Len(t) /\ Len(s) \in Nat /\ Len(t) \in Nat
      /\ DOMAIN (s \o t) = 1..(Len(s) + Len(t)) /\ DOMAIN s = 1..Len(s) /\ DOMAIN t = 1..Len(t)
  OBVIOUS
<1>2. ASSUME NEW i \in 1..(Len(s) + Len(t)), i <= Len(s) PROVE i \in DOMAIN s /\ (s \o t)[i] = s[i]
  BY <1>1, <1>2
<1>3. ASSUME NEW i \in 1..(Len(s) + Len(t)), ~(i <= Len(s))
      PROVE  i - Len(s) \in DOMAIN t /\ (s \o t)[i] = t[i - Len(s)]
  BY <1>1, <1>3
<1> QED BY <1>1, <1>2, <1>3

LEMMA Shortened ==
  ASSUME NEW s \in Seq(Nat), NEW k \in DOMAIN s
  PROVE  /\ Subs!RemoveAt(s, k) \in Seq(Nat)
         /\ \A i \in DOMAIN Subs!RemoveAt(s, k) : \E j \in DOMAIN s : Subs!RemoveAt(s, k)[i] = s[j]
<1> DEFINE head == SubSeq(s, 1, k - 1)
           tail == SubSeq(s, k + 1, Len(s))
<1>1. k \in 1..Len(s) /\ Len(s) \in Nat /\ DOMAIN s = 1..Len(s) /\ s \in [1..Len(s) -> Nat]
  OBVIOUS
<1>2. head \in Seq(Nat) /\ \A i \in DOMAIN head : \E j \in DOMAIN s : head[i] = s[j]
  <2>1. head = [i \in 1..(k - 1) |-> s[i]] /\ k - 1 \in Nat
    BY <1>1
  <2> HIDE DEF head
  <2>2. \A i \in 1..(k - 1) : head[i] = s[i] /\ i \in 1..Len(s) /\ s[i] \in Nat
    BY <1>1, <2>1
  <2>3. head \in Seq(Nat)
    BY <2>1, <2>2
  <2> QED BY <1>1, <2>1, <2>2, <2>3
<1>3. tail \in Seq(Nat) /\ \A i \in DOMAIN tail : \E j \in DOMAIN s : tail[i] = s[j]
  <2>1. Len(s) - k \in Nat /\ tail \in Seq(Nat) /\ Len(tail) = Len(s) - k
    BY <1>1
  <2>2. \A i \in 1..(Len(s) - k) : tail[i] = s[k + i]
    BY <1>1
  <2> HIDE DEF tail
  <2>3. DOMAIN tail = 1..(Len(s) - k)
    BY <2>1
  <2>4. \A i \in 1..(Len(s) - k) : k + i \in DOMAIN s
    BY <1>1, <2>1
  <2> QED BY <2>1, <2>2, <2>3, <2>4
<1>4. Subs!RemoveAt(s, k) = head \o tail
  BY DEF Subs!RemoveAt
<1> HIDE DEF head, tail
<1>5. ASSUME NEW i \in DOMAIN (head \o tail) PROVE \E j \in DOMAIN s : (head \o tail)[i] = s[j]
  <2>1. CASE \E j \in DOMAIN head : (head \o tail)[i] = head[j]
    BY <1>2, <2>1
  <2>2. CASE \E j \in DOMAIN tail : (head \o tail)[i] = tail[j]
    BY <1>3, <2>2
  <2> QED BY <1>2, <1>3, <1>5, <2>1, <2>2, Joined
<1>6. head \o tail \in Seq(Nat)
  BY <1>2, <1>3, Joined
<1> QED BY <1>4, <1>5, <1>6

\* What stands after a removal stood before it.
LEMMA RemovedStood ==
  ASSUME NEW k \in DOMAIN order, order \in Seq(Nat), order' = Subs!RemoveAt(order, k)
  PROVE  order' \in Seq(Nat) /\ \A i \in DOMAIN order' : \E j \in DOMAIN order : order'[i] = order[j]
BY Shortened

LEMMA RegistryKeeps ==
  ASSUME SubsInv, \/ UNCHANGED <<order, nextId, wants>>
                  \/ \E f \in Subs!Filters : Subs!Added(f)
                  \/ \E x \in Subs!SubscriptionIds : Subs!Removed(x)
                  \/ Subs!Cleared
  PROVE  /\ nextId' \in Nat /\ nextId <= nextId' /\ wants' \in [Subs!SubscriptionIds -> Subs!Filters]
         /\ order' \in Seq(Nat)
         /\ \A k \in DOMAIN order' : order'[k] < nextId' /\ order'[k] \in Subs!SubscriptionIds
         /\ \A id \in Subs!SubscriptionIds : id \in Nat /\ id < nextId => wants'[id] = wants[id]
<1>1. ASSUME NEW f \in Subs!Filters, Subs!Added(f)
      PROVE  /\ nextId' = nextId + 1 /\ order' = Append(order, nextId) /\ nextId \in Subs!SubscriptionIds
             /\ wants' = [wants EXCEPT ![nextId] = f]
  BY <1>1 DEF Subs!Added
<1>2. ASSUME NEW x \in Subs!SubscriptionIds, Subs!Removed(x)
      PROVE  /\ UNCHANGED <<nextId, wants>> /\ order' \in Seq(Nat)
             /\ \A i \in DOMAIN order' : \E j \in DOMAIN order : order'[i] = order[j]
  BY <1>2, RemovedStood DEF SubsInv, Subs!Removed
<1>3. CASE UNCHANGED <<order, nextId, wants>>
  BY <1>3 DEF SubsInv
<1>4. CASE \E f \in Subs!Filters : Subs!Added(f)
  <2>1. PICK f \in Subs!Filters : Subs!Added(f)
    BY <1>4
  <2>2. /\ order' = Append(order, nextId) /\ order \in Seq(Nat) /\ nextId \in Nat
        /\ nextId' = nextId + 1 /\ nextId \in Subs!SubscriptionIds
    BY <1>1, <2>1 DEF SubsInv
  <2>3. order' \in Seq(Nat) /\ \A k \in DOMAIN order' : order'[k] = nextId \/ (k \in DOMAIN order /\ order'[k] = order[k])
    BY <2>2
  <2>4. \A k \in DOMAIN order' : order'[k] < nextId' /\ order'[k] \in Subs!SubscriptionIds
    <3>1. \A k \in DOMAIN order : order[k] \in Nat /\ order[k] < nextId /\ order[k] \in Subs!SubscriptionIds
      BY DEF SubsInv
    <3> QED BY <2>2, <2>3, <3>1
  <2>5. wants' \in [Subs!SubscriptionIds -> Subs!Filters]
        /\ \A id \in Subs!SubscriptionIds : id # nextId => wants'[id] = wants[id]
    BY <1>1, <2>1 DEF SubsInv
  <2> QED BY <2>2, <2>3, <2>4, <2>5
<1>5. CASE \E x \in Subs!SubscriptionIds : Subs!Removed(x)
  BY <1>2, <1>5 DEF SubsInv
<1>6. CASE Subs!Cleared
  BY <1>6 DEF SubsInv, Subs!Cleared
<1> QED BY <1>3, <1>4, <1>5, <1>6

\* Outside a visit, and in it for those visited before.
LEMMA StandingKeeps ==
  ASSUME SubsInv, \/ UNCHANGED <<order, nextId, wants>>
                  \/ \E f \in Subs!Filters : Subs!Added(f)
                  \/ \E x \in Subs!SubscriptionIds : Subs!Removed(x)
                  \/ Subs!Cleared,
         called \subseteq called',
         \A id \in visited' \ visited : id \in Nat /\ id < nextId /\ id \in Subs!SubscriptionIds
                                        /\ (Subs!Unrestricted(id) => id \in called')
  PROVE  SubsInv'
<1>1. \A id \in visited' : /\ id \in Nat /\ id < nextId /\ id \in Subs!SubscriptionIds
                           /\ Subs!Unrestricted(id) => id \in called'
  BY DEF SubsInv
<1>2. \A id \in visited' : wants'[id] = wants[id] /\ id < nextId'
  BY <1>1, RegistryKeeps DEF SubsInv
<1>3. \A id \in visited' : wants'[id] = wants[id] => (Subs!Unrestricted(id)' <=> Subs!Unrestricted(id))
  BY DEF Subs!Unrestricted
<1> QED BY <1>1, <1>2, <1>3, RegistryKeeps DEF SubsInv

LEMMA VisitCalls ==
  ASSUME SubsInv, Subs!Visit
  PROVE  /\ SubsInv'
         /\ \A id \in called' \ called : Subs!Subscribed(id)
<1>1. PICK k \in Subs!Pending : Subs!VisitOf(order[k])
  BY DEF Subs!Visit
<1> DEFINE id == order[k]
<1>2. k \in DOMAIN order /\ id \in Nat /\ id < nextId /\ id \in Subs!SubscriptionIds /\ Subs!Subscribed(id)
  BY <1>1 DEF SubsInv, Subs!Pending, Subs!Subscribed, Subs!Contains
<1>3. visited' = visited \cup {id} /\ called' \in {called, called \cup {id}} /\ (Subs!Due(id) => id \in called')
  BY <1>1 DEF Subs!VisitOf
<1>4. \/ UNCHANGED <<order, nextId, wants>>
      \/ \E f \in Subs!Filters : Subs!Added(f)
      \/ \E x \in Subs!SubscriptionIds : Subs!Removed(x)
      \/ Subs!Cleared
  BY <1>1 DEF Subs!VisitOf, Subs!registry
<1>5. Subs!Unrestricted(id) => Subs!Due(id)
  BY DEF Subs!Unrestricted, Subs!Due
<1> QED BY <1>2, <1>3, <1>4, <1>5, StandingKeeps

LEMMA SubsNext == ASSUME SubsInv, [Subs!Next]_(Subs!vars) PROVE SubsInv'
<1>1. CASE UNCHANGED Subs!vars
  BY <1>1, StandingKeeps DEF Subs!vars, Subs!registry
<1>2. ASSUME NEW f \in Subs!Filters, Subs!Subscribe(f) PROVE SubsInv'
  BY <1>2, StandingKeeps DEF Subs!Subscribe
<1>3. ASSUME NEW id \in Subs!SubscriptionIds, Subs!Unsubscribe(id) PROVE SubsInv'
  BY <1>3, StandingKeeps DEF Subs!Unsubscribe
<1>4. ASSUME NEW id \in Subs!SubscriptionIds, Subs!IntervalPasses(id) \/ Subs!Evict(id) PROVE SubsInv'
  BY <1>4, StandingKeeps DEF Subs!IntervalPasses, Subs!Evict, Subs!registry
<1>5. CASE Subs!Clear
  BY <1>5, StandingKeeps DEF Subs!Clear
<1>6. ASSUME NEW value \in Values, Subs!Dispatch(value) PROVE SubsInv'
  BY <1>6 DEF SubsInv, Subs!Dispatch, Subs!registry, Subs!Unrestricted
<1>7. CASE Subs!DispatchEnds
  BY <1>7, StandingKeeps DEF Subs!DispatchEnds, Subs!registry
<1> QED BY <1>1, <1>2, <1>3, <1>4, <1>5, <1>6, <1>7, VisitCalls DEF Subs!Next

LEMMA SubsStart == Subs!Init => SubsInv
<1> SUFFICES ASSUME Subs!Init PROVE SubsInv
  OBVIOUS
<1>1. order = <<>>
  BY DEF Subs!Init, Subs!Start
<1>2. nextId = 1 /\ visited = {}
  BY DEF Subs!Init, Subs!Start
<1>3. wants = [id \in Subs!SubscriptionIds |-> [limited |-> FALSE, changed |-> FALSE]]
  BY DEF Subs!Init, Subs!Start
<1>4. [limited |-> FALSE, changed |-> FALSE] \in Subs!Filters
  BY DEF Subs!Filters
<1> QED BY <1>1, <1>2, <1>3, <1>4 DEF SubsInv

\* A step calls none but a subscription that stands before it.
LEMMA CallsStanding ==
  ASSUME SubsInv, [Subs!Next]_(Subs!vars), ~UNCHANGED Subs!vars, message' # Subs!Nothing
  PROVE  \A id \in Subs!SubscriptionIds : id \in called' \ called => Subs!Subscribed(id)
<1>1. Subs!Visit \/ called' \subseteq called
  BY DEF Subs!Next, Subs!Subscribe, Subs!Unsubscribe, Subs!IntervalPasses, Subs!Evict, Subs!Clear,
         Subs!Dispatch, Subs!DispatchEnds
<1> QED BY <1>1, VisitCalls

\* For any number of subscriptions, filters and values, and callbacks that end,
\* add and clear subscriptions while the registry is dispatching: nobody is
\* called that does not stand, and nobody without restrictions is passed over.
THEOREM PartsDispatchReaches == PartsSpec => DispatchReachesStanding
<1>1. PartsInit => SubsInv
  BY SubsStart DEF PartsInit
<1>2. ASSUME [PartsNext]_parts PROVE [Subs!Next]_(Subs!vars)
  BY <1>2 DEF PartsNext, parts, subscriptionVars, Subs!vars, Subs!registry, Subs!memory
<1>3. SubsInv /\ [PartsNext]_parts => SubsInv'
  BY <1>2, SubsNext
<1>4. ASSUME SubsInv, [PartsNext]_parts
      PROVE  [\A id \in Subs!SubscriptionIds :
                id \in called' \ called /\ message' # Subs!Nothing => Subs!Subscribed(id)]_(Subs!vars)
  BY <1>2, <1>4, CallsStanding
<1>5. ASSUME SubsInv, Subs!DispatchEnds
      PROVE  \A id \in atStart : Subs!Subscribed(id) /\ Subs!Unrestricted(id) => id \in called
  <2>1. \A k \in DOMAIN order : order[k] \in visited
    BY <1>5 DEF Subs!DispatchEnds, Subs!Pending
  <2>2. \A id : Subs!Subscribed(id) => id \in visited
    BY <1>5, <2>1 DEF SubsInv, Subs!Subscribed, Subs!Contains
  <2> QED BY <1>5, <2>2 DEF SubsInv
<1>6. SubsInv /\ [PartsNext]_parts =>
        [Subs!DispatchEnds => \A id \in atStart : Subs!Subscribed(id) /\ Subs!Unrestricted(id) => id \in called]_(Subs!vars)
  BY <1>5
<1> QED BY <1>1, <1>3, <1>4, <1>6, PTL DEF PartsSpec, DispatchReachesStanding, Subs!NotAfterUnsubscribe, Subs!NobodySkipped

-----------------------------------------------------------------------------
(* Commands *)

\* The commands of a connection run as they do alone.
LEMMA PartsRunCommands == PartsSpec => Spec
<1>1. PartsInit => Init
  BY DEF PartsInit
<1>2. ASSUME [PartsNext]_parts PROVE [Next]_vars
  BY <1>2 DEF PartsNext, parts
<1> QED BY <1>1, <1>2, PTL DEF PartsSpec, Spec

\* For any number of identical commands that compete for the lock of a
\* connection, any retries, acknowledgements and teardowns: one waits at a time
\* until the connection is torn down, a command is refused as busy only while
\* another one waits, and none is sent again once it is reported in progress.
THEOREM PartsCommandsExclude ==
  PartsSpec => []OneAtATimeUntilTeardown /\ BusyIsTruthful /\ NoResendAfterProgress
BY PartsRunCommands, LockExcludes, BusyTruthful, ProgressEndsSending, PTL
=============================================================================
