# Verification of node-red-contrib-mavlink-ai

TLA+ models of the runtime of this Node-RED package: the parts in which flows,
timers, sockets and vehicles interleave. Each module is translated from the
source; `PROJECT.json` maps every definition to the lines it stands for. TLC
checks the models on small instances, TLAPS proves theorems about them for every
value of the constants.

The program is single-threaded JavaScript. One step of a model is one turn of
the event loop: the call or event that starts it and all it runs synchronously
or in microtasks. What may happen between two turns is what interleaves: input
messages, timer expiries, settlements of transport writes and of `stop()`,
incoming frames, deploys and closes.

## The system

| Part | State it keeps | Operations | Models |
|---|---|---|---|
| Outbound queue `lib/runtime/outbound-queue.js` | waiting items with band, coalesce key and age; the item at the writer | `enqueue`, `dropCoalesced(Matching)`, `clear`, the drain loop | `OutboundQueue`, `SendService` |
| Link state `lib/protocol/link-state.js`, `replay-tracker.js` | last signing timestamp per stream; a table of streams per key | `nextSignTimestampMs`, `replayTrackerFor`, `check` | `SignedLink`, `ReplayTracker` |
| Command workflow `lib/command/command-workflow.js` and locks `lib/runtime/lock-manager.js` | state, timer, retries, subscription, lock handle; owner per key | `run`, `abort`, send settlement, timeout, `COMMAND_ACK` | `CommandWorkflow` |
| Connection `nodes/mavlink-ai-connection.js`: lifecycle | `_active`, transport, teardown under way, heartbeat timers | `deactivate`, `reactivate`, reconcile, `startTransport`, close | `ConnectionLifecycle` |
| ... its identities | bindings, resolved sources, schedules | deploy, `setupHeartbeat`, send, tick | `Identities` |
| ... its profiles and decoders | `profile`, codec cache, splitter, status | deploy, codec lookup, transport start and loss | `Profiles` |
| ... its health and heartbeats `lib/health/` | assertions with leases, the status each timer advertises | assert, tick, expiry, fatal edge | `Heartbeats` |
| ... routing `lib/routing/` | route table, accepted ids | resolve a packet, check a workflow's target | `Router` |
| Subscriptions `lib/runtime/subscription-registry.js` | map of subscriptions, what each remembers | `subscribe`, `unsubscribe`, `clear`, `dispatch` | `Subscriptions` |
| Mission workflows `lib/mission/` | state, timer, retries, items | download, upload, clear | `MissionWorkflow` (base class), `MissionDownload`, `MissionUpload`, `MissionClear` |
| Parameter workflows `lib/param/param-workflow.js` | the same, and the values received | list, read, set, automatic set | `ParamList`, `ParamSet` |
| Mission, parameter, command and payload nodes | the lock, the active workflow, the connection in use | input, settlement, deploy, close | `Transfers`, `ActionNode` |
| Vehicle registry `lib/swarm/vehicle-registry.js` and swarm node | a table of vehicles, the last signature | message, change tick, interval, on demand | `VehicleRegistry`, `SwarmNode` |
| Vehicle state node `lib/state/`, `nodes/mavlink-ai-vehicle-state.js` | record, last snapshot, last transition | message, ticker, snapshot, rebuild | `VehicleState` |
| Fan-out node `lib/swarm/fanout.js`, `nodes/mavlink-ai-fanout.js` | targets, worker pool, results | expand, build, dispatch, report, close | `FanoutTargets`, `FanoutMessage`, `Fanout` |
| Formation node `lib/swarm/formation.js`, `nodes/mavlink-ai-formation.js` | table, leader, last emission, slots | message, tick, input, succession | `Formation`, `FormationSlots` |
| Move node `lib/move/`, `nodes/mavlink-ai-move.js` | stream timer, generation, deadline, sends | input, interval, settlement, deploy, close | `MoveStream`, `Setpoint` |
| Attachment of flow nodes (In, swarm, vehicle state, formation) | connection and profile held | `attach`, `detach` on `flows:started` | `Attachment` |
| Transports `lib/transport/` | socket, peers, reconnect timer | start, reconnect, send, `confirmPeer`, stop | `Transport` |
| Dialect includes `lib/dialects/xml-include-resolver.js` | stack, visited files, order | the depth-first walk | `IncludeGraph` |
| Codec, normalizer and validation, editor API | tables | | not modelled: data and input/output |

How they interact: every node sends through the connection, which encodes and
signs the frame and puts it into the outbound queue; the queue's drain loop
hands one item at a time to the transport; the promise of the send settles when
its write does. Incoming frames are decoded once, routed, and dispatched to the
subscriptions the workflows and nodes hold. Workflows of one key exclude each
other through the connection's locks. A deploy may take the connection down
under all of them.

What is hard, and the property that makes each part correct, is the list of
hazards in `PROJECT.json`: every one names the line where it bites and the
properties that watch it, or says why none does.

## Modules and what corresponds to what

**`OutboundQueue`.** `queue` and `ahead` are `_queue` (the items and their order
in the array), `inFlight` is `_inFlight` with `_draining`, `cleared` the
generation check that `clear()` makes for the item at the writer, `outcome` what
each send's promise did, `traced` the sends whose `onWrite` ran. `enabled = FALSE`
is the pass-through mode. `Enqueue`, `DropCoalescedMatching`, `Clear` and
`WriteSettles` are the methods, each with the drain loop that follows it in the
same turn; `Tick` lets time pass.
**`SendService`** is what callers rely on: a send becomes pending and settles
once. `ImplementsSendService` is the refinement.

**`SignedLink`** extends the queue by the signing timestamp a frame gets before
it is queued, and by the monotonic rule of the receiver.

**`CommandWorkflow`.** Several workflows for the same command and target. `phase`
is `state`, `sending` the pending promise of `send()`, `timer`, `retries`, `waits`
(`_inProgressWaits`), `subscribed` and `locked` the registrations to undo,
`lockOwner` the entry of the LockManager; every workflow passes the same owner
string. `TakeDown` of the connection drops locks and pending sends.

**`ConnectionLifecycle`.** `transport` is the number of the transport in use,
`stopping` the transports whose `stop()` has not settled, `deactivating` the
promise in `_deactivating`, `restarts` the continuations of `reactivate()` that
wait for it, `node` the progress of the close handler.

**`Transport`** is one transport, of any kind, from its first `start()` to the end
of `stop()`. `current` is its `socket`, `server`, `client` or `port` field, and `os`
what the operating system makes of every handle it ever opened; the difference is
what `stop()` and late callbacks are about. `timer` is `_reconnectTimer`,
`stopWaits` the close that the promise of `stop()` waits for. `peers`,
`learnedSysid` and `learnedPeer` are the peer table of the UDP transport and its
fallback; `sockets` and `destroyed` the clients of a TCP server; `pending` and
`answer` the writes and the promise of each send. The handles are external: they
open, break and close at any time. A `start()` that throws re-arms the timer, which
is a stutter; the length of the back-off and datagrams that arrive while a socket
closes are left out.

**`MissionWorkflow`** is the base class of the mission workflows and of the
parameter workflows, which repeat the same code: `sends` are its sends in flight
in order, `timer` holds the message the armed timeout would repeat (a closure in
the code), `outcome` how `run()` settled. The five workflow modules add their
handlers. **`Transfers`** is the choice the nodes make: `kind` says which workflow
runs; the node's lock admits one per target, so a transfer meets leftovers of an
earlier one (`leftover`) but never a concurrent one.

**`ReplayTracker`** has one tracker per key in `max` (stream -> last timestamp)
and `maxAccepted`; `accepted` is history, the frames let through. `Check` is
`check()` of a frame it accepts, a new stream needing room in the table;
`Rekey` is `replayTrackerFor` after an edit of the profile.

**`Identities`** and **`Profiles`** replay deploys the way the runtime runs them:
nodes are removed, created, and only then does `flows:started` let the connection
look again, so between the two it holds a node that is gone. `registry` is
`RED.nodes.getNode`. **`Attachment`** is the same for the nodes that depend on a
connection; `first` says whose `flows:started` listener is registered earlier.

**`Heartbeats`** extends the queue: a tick computes a status and enqueues it under
the coalesce key of its identity, and a fatal assertion drops what waits.

**`Router`** decides packets and workflow targets for every list of routes;
**`Subscriptions`** dispatches one message over the live map, callback after
callback, each of which may unsubscribe, subscribe or clear; `shown`, `atStart`
and `called` are history.

**`VehicleRegistry`** is the table as a value: `Ingest` and ageing transform it,
`Expired` is the lazy expiry every look at it begins with. `SwarmNode` and `Formation` extend it. Time is a
threshold each record has passed or not. **`VehicleState`** is one vehicle with its
last snapshot (`baseline`); `told` adds up the transitions sent.

**`Fanout`** is one input message: `next` is the index the workers share,
`inFlight` the targets whose worker waits, `pc` what the handler awaits, `output`
the report. **`FanoutMessage`** and **`Setpoint`** build one message; **`FormationSlots`**
places vehicles. They are pure functions of the code, and their modules enumerate
the inputs.

**`MoveStream`** has the stream of the node with `gen`, the generation `_streamGen`
that late settlements compare with, and `pending`, the generations of unsettled
sends. **`ActionNode`** is the frame the command, payload, mission and parameter
nodes share: `sentOn` is the connection a send runs on, `connection` the one the
node holds since the last deploy, `named` the one its error names.

**`IncludeGraph`** is the walk with its explicit stack over every graph of three files.

**`MCConnectionParts`** and **`MCNodes`** put components that do not run against each
other into one run: `kind`, chosen initially, says which component moves, and the
others stay in an initial state. A composite property is a conjunction of
properties of the components, each of them stated and explained in its own
module.

The vehicle and the link are external. A message may be lost (it simply is never
taken), repeated and overtaken; the vehicle may answer, refuse, keep silent, or
speak unasked.

## Runs

| Run | Question | Bounds |
|---|---|---|
| `OutboundQueueSafety` | Promises and order under every interleaving of enqueues, refusals, coalescing, eviction, `clear()` and late settlements; of signed frames, which ones does a monotonic peer drop? Only overtaken ones | 4 sends over bands 0, 1, 3, of which band 3 carries one of two keys; depth 2; ages to 3, promotion every tick; 5 timestamps |
| `Heartbeats` | Does a waiting heartbeat say what the latest tick found, does a fatal assertion silence its identity, is every key served, does the queue implement the send service? | 3 sends, 1 key, bands 1 and 3, assertions nominal and fatal, depth 2, ages to 2 |
| `Transfers` | Does what a transfer reports agree with what the two sides hold, and does it end? | 2 items or parameters, 1 retry, 4 messages from the vehicle |
| `Transports` | One live handle at a time; does `stop()` release it and end; who gets untargeted UDP traffic; does every send settle? | 3 handles, 2 sends, 2 clients; 2 vehicles and a ground station at 2 endpoints |
| `ConnectionParts` | What a connection owns: command exclusion and progress, distinct sources and present heartbeats, present codecs, viable broadcasts, single attachment, no replay, dispatch to whoever stands | 2 workflows, 1 retry, 3 acknowledgements, 1 teardown; 3 identities, 2 system ids, 2 edits; 2 profiles over 2 clashing dialects, 3 edits; lists of 3 routes over 1 system with 2 components; 2 values, 2 subscriptions; 3 streams, 2 keys, a table of 2, 4 frames, window 1; 8 node changes; 3 dialect files of up to 2 includes |
| `Nodes` | The lifecycle and the flow nodes: ports and close, true fan-out reports, silence after stop and close, tables and transitions that say what was seen and converge, formations that place newcomers and replace leaders, nobody waiting in vain, everything released | 6 deploys, 3 teardowns; 3 system ids, lists of 3, 1 or 2 workers; 2 vehicles at 2 places; 3 vehicles with pins to 2; 3 inputs and 1 deploy of the move node; 2 modes, 2 rebuilds; 2 inputs over 2 connections |
| `SignedLinkReordered` | (violation) Does no frame of ours look like a replay? | 3 sends over bands 0, 2, 3; depth 2; 4 timestamps |
| `CommandLockLost` | (violation) Exclusion across a teardown | 2 workflows, 1 retry, 2 acknowledgements, 1 teardown |
| `LifecyclePortBusy` | (violation) Is the port free whenever a transport starts? | 4 deploys, 2 teardowns |
| `ClearStaleAck` | (violation) Is an acknowledged clear always made? | 5 messages |
| `FormationSlotLost` | (violation) Is a follower that joins always sent to its slot? | as `Nodes` |
| `EngineStale` | (violation) Are the enums of a vehicle-state node those of the profile in use? | as `ConnectionParts` |

Why the bounds are enough to be interesting: three or four sends and depth two reach
overtaking, coalescing onto an aged item, refusal and abandonment at once; two
workflows are the least that compete, one retry separates "may retry" from
"exhausted", and three acknowledgements hold one in progress, one final and one
duplicate; the shortest lifecycle counterexample needs two teardowns, so three
leave one to spare; two items have a first, a next and a last, and four messages
complete any transfer with at least one left for a duplicate or an unasked one.
Three streams and a table of two reach a full table; two subscriptions let a
callback end the other and itself, and make one while there is room; three targets
and two workers leave one to dispatch when an error arrives; two identities beside
the default may collide with it and with each other; one profile edit makes a
codec stale, a second restores it, and a third breaks a route; eight node changes
replace a connection, its profile and a flow node in one deploy and again in the
next.

Bounds that are not in the code are named in the modules: `MaxAge`, `MaxStamp`,
`MaxAcks`, `MaxTeardowns`, `MaxDeploys`, `MaxReplies`, `MaxHandles`, `MaxEdits`,
`MaxChanges`, `MaxInputs`, `MaxFrames`, `MaxTime`, `MaxRoutes`, `MaxSubscriptions`,
`MaxRebuilds`, `MaxConnections`. `MaxAcks` and `MaxReplies` bound what the vehicle
says. One of them carries weight: a parameter list re-arms its stall timer on
every value, so a vehicle that repeats values for ever keeps a list with a gap
running; `TransferSettles` holds for a vehicle that stops repeating. The upload's
vehicle is not bounded in that way: it may ask again for items it has without end.

### Fairness

- A transport write settles (`Heartbeats`, and every "send settles" condition):
  each transport bounds a write by a deadline (`lib/transport/bounded-write.js`)
  and the drain loop awaits nothing else.
- An armed `setTimeout` fires: workflows, the guard of the close handler, the gap
  and the pacing of a fan-out, the deadline of a stream.
- A `setInterval` keeps firing while it is armed: heartbeats, the change tick of
  the swarm node, the ticker of the vehicle state, the tick of the formation and
  the interval that limits its rate.
- A workflow or send a node waits for settles (`ActionNode`, `Fanout`); that it does
  is `EveryRunSettles` and `TransferSettles` of the workflows themselves.
- A dispatch visits its subscriptions and ends, being a synchronous loop; a rate
  interval passes again and again (strongly fair: it is interrupted by every
  delivery).
- `stop()` settles only as a hypothesis of `RestoredComesUp`: the operating
  system owes it, the code guards against its absence.
- In `Transports` a write's deadline passes (`DeadlinesPass`), and the operating
  system opens or refuses and closes what it was told to (`SystemAnswers`,
  external). Nothing makes a handle break, a client come or a reconnect timer fire.
- Vehicle and link owe nothing anywhere.
- `KeyServed` holds without emergency traffic. The emergency band is never aged
  past, so a steady flood of it starves the rest by design.

### What the violations show

Each is a line of the repository that its code does not keep:

1. `SignedLinkReordered`: frames are signed before the queue reorders them.
   `DropsAreOvertaken` is what holds, and is proved.
2. `CommandLockLost`: `deactivate()` drops the locks of workflows that keep
   running. `OneAtATimeUntilTeardown` is what holds, and is proved.
3. `LifecyclePortBusy`: a second deactivation forgets the `stop()` of the first.
   `PortFreeInOneTeardown` is what holds, and is proved.
4. `ClearStaleAck`: an acceptance left over from an earlier transfer completes a
   clear. `CompleteMeansCleared` holds without leftovers.
5. `FormationSlotLost`: the signature of the last emission survives a time in which
   the leader was alone, so a follower that leaves and comes back is taken for one
   that never left, and stays unplaced until the leader moves. `NewcomersPlaced` is
   what holds.
6. `EngineStale`: with its listener registered before that of the connection, a
   vehicle-state node compares the profile before it is swapped.
   `EngineFollowsProfile` is what holds.

### Observations without a run

Found while modelling; a property or a comment of the module concerned says the same.

- A decoder conflict is shown in the status and stays there after the profiles agree
  again (`nodes/mavlink-ai-connection.js:2399`); a route error does clear
  (`RouteErrorClears`).
- `attach()` of the vehicle-state node reads the profile of a connection that may
  have none at that moment, throws, and ends the round of `flows:started` listeners.
- The mission and parameter nodes name the connection they hold now in an error on
  their later exits, where a deploy may have replaced the one used.
- A late settlement of the request for an item re-arms the timeout of a download that
  has moved on, and the item is stored twice (`lib/mission/mission-download.js:90`,
  `156`). `PromptDownloadIsMission` holds when sends settle before the timeout.
- `stop()` of a serial port that is still opening resolves at once
  (`lib/transport/serial-transport.js:209`); the port closes when its `open()` calls
  back, as `StopEnds` shows.
- A heartbeat enqueued before a lease runs out may be written after it.
- Two bindings of one identity schedule a heartbeat that is refused at every tick.
- Between the replacement of an identity node and `flows:started`, two identities may
  resolve to one source; `SourcesDistinct` speaks of what is resolved after a deploy.
- A rebuild of the vehicle-state engine forgets a connected vehicle without a
  `connection_lost`.
- The `close` event of a transport may overwrite the status of a deactivated node.

## Proofs

Eight modules of theorems, for every value of the constants under the assumption
each model states of them; the bounds that are constants are arbitrary in the
theorems. Every invariant a passing run checks, and every action property, is
stated by a theorem; what is left to TLC is listed at the end of this section.

| Module | Theorems about |
|---|---|
| `OutboundQueueProofs` | `OutboundQueue`, `SendService`, `SignedLink` |
| `HeartbeatsProofs` | `Heartbeats` (extends the proofs of the queue) |
| `CommandWorkflowProofs` | `CommandWorkflow` |
| `ConnectionLifecycleProofs` | `ConnectionLifecycle` |
| `TransportProofs` | `Transport` |
| `TransfersProofs` | `Transfers` and its five workflows |
| `ConnectionPartsProofs` | `Identities`, `ReplayTracker`, `Router`, `Attachment`, `IncludeGraph`, `Profiles`, `Subscriptions`, and `MCConnectionParts` |
| `NodesProofs` | `Fanout`, `MoveStream`, `ActionNode`, `Formation`, `FanoutMessage`, `Setpoint`, `FormationSlots`, `VehicleState`, `SwarmNode`, and `MCNodes` |

A part of a composite (`MCConnectionParts`, `MCNodes`) has an inductive invariant
of its own, over its own steps; a step of the composite is a step of the part or
leaves it alone, and so the composite's property follows (`Parts...`,
`Nodes...`). The commands and the lifecycle are modules of their own and steps of a
composite as well: `PartsCommandsExclude`, `NodesLifecycle` and `NodesNobodyWaits`
carry what is proved of them over, for behaviours in which the other parts move too.

`PartsAssumption` and `NodesAssumption` say what the code fixes of the constants: the default identity and profile are 1, remote ids are bytes and there
are two components at least, the window and the clock are natural numbers, the
files of a dialect are finitely many; a fan-out may run one worker, vehicles are
system ids, a node that acts on a vehicle starts with a connection, and 0, which
stands for no flight mode or no holder of a lock, is neither a mode nor an input.

*Queue.* `Inv` adds to the checked invariants: an item is in one place only
(`OnePlace`: no send both waits and is at the writer), the writer is idle only if
nothing waits (`WorkConserving`), and the modes do not mix (`OneMode`). Without
`OnePlace` a settlement could answer a promise twice; without `WorkConserving` a
step that starts an item need not choose among the waiting. From it follow
`TypeCorrectness`, `NoCallerForgotten`, `NoStaleCopies`, `BacklogBounded` and
`TraceTruthful`. `EmergencyNeverOvertaken` and `FirstComeFirstServed` are action
properties: the item started minimises the effective band, and age promotion is
monotonic (`DivMonotonic`). `SupersedingKeepsAge` says coalescing never loses a
place. `ImplementsServiceSafety` is step simulation of `SendService`'s safety part.

*Signed link.* `FrameInv` carries the order of signing through the reordering: frames
under way have timestamps of their own (`StampsApart`, `NotYetSeen`); nothing signed
later than a waiting emergency frame is accepted or being written (`EmergencyAhead`,
`EmergencyNext`), because emergency frames wait in the order they were signed
(`EmergencyInOrder`: they never coalesce, so age and array order agree with the
timestamps) and nothing else is sorted before them; what was dropped was older than
something accepted (`DroppedForNewer`). From it follows `DropsAreOvertaken`.

*Heartbeats.* Every step of the heartbeats is a step of the queue, or none
(`HeartbeatsRideTheQueue`), so the theorems about the queue hold under them.
`HealthInv` adds to the queue's `Inv`: what waits under the key of an identity says
what its latest tick found, and the identity was not asserted fatal since (`Says`);
a fatal assertion has no lease that could run out (`FatalHasNoLease`: without it a
fatal identity could resolve to a heartbeat again). With the step that begins a write,
which takes what waited or what was just made (`WhatBegins`), `FatalIsSilent` follows.

*Command.* `Inv` adds: a running workflow holds its handle and subscription
(`HandlesWhileRunning`), a held key has a handle behind it (`LockNeverLeaks`), one
send is pending at most and frames count retries (`OneSendPending`,
`FramesAreRetries`). From it follow `TypeCorrectness`, `Inertness`, `NeverStuck`,
`TransmissionsBounded`, `BusyTruthful` and `ProgressEndsSending`. `LockExcludes`
needs one more conjunct, true until the first teardown: whoever holds a handle
owns the key (`HandleHoldsKey`).

*Lifecycle.* `Inv` adds: a transport in use belongs to an active connection
(`TransportWhileActive`); up to the second teardown, what is stopping is what
`_deactivating` stands for, and nothing is while a transport is in use
(`StoppingIsKnown`); the close handler waits for all of it (`CloseWaitsForAll`).
From it follow `NothingStartsAfterClose` and `ReleasedWhenClosed` (together
`ClosedForGood`), `HeartbeatsOnlyOnTransport` and `PortFreeInOneTeardown`. After the
second teardown `StoppingIsKnown` fails, which is the violation `LifecyclePortBusy`;
`WaitsAreReal` does not: however often a connection was deactivated, a restart or a
close handler waits for a `stop()` that is under way (`NothingHangs`).

*Transport.* Until `stop()`, only the current handle is alive, and the timer waits
for its end (`RunningHandles`); after it, one handle at most is not closed yet
(`StoppedHandles`); `_bound` means an open socket (`BoundIsOpen`); handles not made
yet are unused (`FreshHandles`). From these follow `StillTrying`, `OneLiveHandle`,
`StopReleases` and `WritesOnlyWhenUp`. `FallbackIsVehicle` has an invariant of its
own over the peer table (`PeerInv`). `WaitsAreOwed` needs that a server knows the
socket of every connection until `stop()`, and has destroyed all of them after, those of
an earlier, failed handle included (`ClientsAreHeld`): `close()` waits for them all.

*Transfers.* One invariant for each workflow; `MissionReportsTrue` and
`ParameterReportsTrue` put them together. A clear and a parameter set keep that an
acceptance, or the requested value, on the link is the trace of what the vehicle has
done (`ClearInv`, `SetInv`). A list counts indices of the vehicle's parameters only, so
as many of them as there are is all of them (`ListInv`, `AllIndices`). An upload keeps
that the vehicle asks for nothing beyond what it lacks next, so that the highest
item asked for bounds what it holds from below (`UpRunning`); without that bound an
acknowledgement proves nothing. A download keeps that its latest send is the one it
waits for an answer to, and that its timer would repeat none but that
(`LatestIsAwaited`). This conjunct is what a send that settles late breaks, which is
why the theorem, like the property, is about downloads whose sends settle before
their timeout; on the same condition it never asks for an earlier item than before
(`DownloadNeverRegresses`). No condition is needed for `TransferNeverStranded`: a
workflow that runs has a send unsettled or its timer armed. `StandInv` says of each
what it sends and what its timer repeats, and of a parameter set that the last of its
sends is the set once the read is over (`SetStands`), so that the settlement of the
read, late or not, does not end with nothing armed.

*Identities.* `DeployReconciled` relates timers and schedules after a deploy,
`SentAreTruthful` what is sent to a resolved identity, `TimersNeedTransport` timers to
a transport of an active connection. The collision check makes the rest
(`SendersDistinct`).

*Replay.* `Remembered` says that each tracker holds, of every stream in its table,
at least the timestamps let through; `NewestKnown` says that `_maxAccepted` is no
older than any of them. A frame let through once is then refused by the first rule
while its stream is in the table, and an evicted stream does not exist: a full table
refuses (`NeverReplayed`). `FreshlyOpened` is the window against the newest frame.

*Routes.* `RouterInv` is little: the decision is the one for the present target. The
work is in the two directions of viability (an accepted broadcast has a component
that can answer; a refused one has none), for every table: the first route that ends
the scan decides for a component (`EndDecides`), and where none does, components are
unmatched or left to broken routes (`NoEnd`); there is always a component that no
route names (`NamedAndFree`).

*Attachment.* Nodes are numbered as they are created, so that a new connection is like
no other (`AttachmentTyped`); a subscription stands at the present connection and at
no other (`SubscribedOnce`). `EngineHasProfile` is what makes `EngineFollowsProfile`
inductive: a node that hears of deploys after its connection has an engine only while
that connection has a profile.

*Includes.* `GraphInv` is the invariant of a depth-first search: the stack is a path
from the root of files not resolved (`StackIsPath`); what the walk has gone past in a
file is resolved, but for the one being walked (`WalkedResolved`); what is resolved
is ordered once, after all it includes (`OrderedSoFar`). `Below`, the files one
reaches, is the least set closed under inclusion, so that the proof needs no
induction over paths.

*Profiles.* A splitter is compared with the profiles it was made of only when a deploy
is reconciled; in between its members may have gone or new ones come. `MembersStand`
or `MembersPassed` always holds of an active connection, and a node that was replaced
never comes back, so that the comparison at the end notices what happened
(`SplitterInv`). `StatusInv` says that an error shown over the transport's status is
there for a route that is broken or profiles that clash.

*Subscriptions.* Whoever a dispatch has gone past was called, unless its filter may
suppress a message (`SubsInv`); ids are given in order, so a callback that subscribes
changes no filter the dispatch has gone past.

*Fan-out.* `Pooled` says of a running dispatch that its targets are settled, in
flight or still to come, and that no more are in flight than there are workers
(`WorkersBounded`). `AwaitsForAReason` says
what the handler's await stands for, `ErrorsNoticed` that the first failure with
stop-on-error set the flag. With these a report has one line per target, whatever
settled, was skipped or was aborted (`EveryVehicleReported`, `DispatchHalts`), and the
dispatcher never awaits an empty pool (`DispatcherNeverStuck`).

*Move.* `GenerationsLast` counts what ends a generation, `FutureIsEmpty` says that
unsettled sends belong to generations up to the present one, which has one at most
(`StreamsOneAtATime`), and `OnlyStreams` that timers and sends have a stream. A
settlement of an older generation changes nothing that is
seen (`StoppedStreamIsSilent`); `ClosedNodeIsSilent` covers every delivery mode, and
`DeadlineArmed` every refresh and stop of a stream with a time to live.

*Nodes that act on a vehicle.* `ActionInv` keeps that an input that has not begun has
no connection and one with an error is done, so that an error, once out, names what
the send used (`ActionsAnswerTruly`). `LocksInv` ties each lock to the one input whose
workflow holds it, so that nothing stays locked once nothing runs, on connections
the node has left too (`LocksFollowWorkflows`).

*Formation.* `FollowersPlaced`: those who followed at the last emission still have their
places, unless the leader was alone since. Only then may an evaluation send nothing to
a follower that came back, and that is the violation `FormationSlotLost`.

*Places.* `VehiclesApart` needs three arguments that no bound would show: there is always
a free slot of every rank (`EnoughSlots`, `FreeSlotOfRank`: a counting argument over the
pinned slots); slots of the same rank are the same (`SlotsApart`); and points of
different slots differ in every shape (`OffsetsApart`, with `DivisionDetermines` for the
rows and columns of a grid). For a fan-out command, `FormsAgree` compares the two
encodings case by case; `SetpointTrue` does the same for the axes of a setpoint.

*Vehicle state.* `StateInv` says that the baseline is an earlier snapshot of the same
vehicle (`Earlier`: an autopilot that was heard stays one, so that a flight mode or an
armed flag, once known, never becomes unknown) and that the consumer was told truly of
it. `FoldsTruly` is the step from one snapshot to the next, section by section: no
transition is left out but those of the first sight. From it follows `NodesToldTruly`.

*Swarm node.* `SwarmInv`: the signature kept for comparison is that of the table emitted
last. A tick that finds the signature unchanged therefore has nothing to tell
(`NodesQuietIsUpToDate`), whichever snapshot on demand expired an entry in between.

What the proofs have shown about the models: that the cases of `Resolve` (`Heartbeats`)
exclude each other only because a fatal assertion has no lease, which is now an
invariant; and that the shapes of `Offset` overlapped at slot 0, which is now the
first case. Where an operator was written in a way the provers cannot expand (a CASE,
a recursive function, a selection from a sequence), it has been written as a record, a
tuple or a set, without a change to what it computes: `Offset`, `FieldOf`, `Below`,
`Pending`, `Events`, `Ingest`.

Only model-checked:

- every liveness property and the fair part of the refinement: the prover does not
  treat fairness. What can be proved of most of them is their safety half, that
  whoever waits is owed something by a timer, a worker or the system, so that only
  fairness is left:

  | Liveness, by TLC | Safety half, proved |
  |---|---|
  | `TransferSettles` | `NeverStranded`: a send unsettled or the timer armed |
  | `EveryRunSettles` | `RunningCanEnd` (theorem `NeverStuck`) |
  | `SendsSettle`, `StopEnds` | `WaitsAreOwed`: a write, a closing handle, destroyed clients |
  | `RestoredComesUp`, `CloseCompletes` | `WaitsAreReal`: a `stop()` under way |
  | `Answered`, `DeadmanStops` and the locks, in `EverythingReleased` | `NobodyWaitsInVain`: a worker, a deadline, a holder |
  | `KeyServed` and the liveness in `ImplementsSendService` | `WorkConserving`, `SupersedingKeepsAge` |
  | `TableConverges`, `TransitionsAddUp` | `QuietIsUpToDate`, `ToldTruly` |
  | `LatestIsSeen`, `SuccessionEnds` | none |

- downloads whose sends settle late, for which `PromptDownloadIsMission` does not hold.

## Abstractions

Contents of messages, values and coordinates; wording of errors and status; the
conversion of integers and item types; `mission_type` and addressing filters (a
message not addressed to the workflow is no event); steps of the system clock;
hooks that throw; configuration that disables a node. A refused send (`QUEUE_FULL`, teardown) and a failed write are
the same event for a workflow: its promise rejects. In `SignedLink` the first
frame of the stream is taken to be fresh. `state` of the upload and of the
parameter workflows only words the timeout error and is left out.

## Not modelled

- The codec, the normalizer and the validation of fields: encoding is done by an
  external library, the checks are functions of one value without state, and the
  unit tests of the repository enumerate them.
- The metadata tables, the download and parsing of XML and the editor's HTTP
  endpoints: input and output.
- The Out and Build nodes: they pass one message to the connection.
- Of modelled parts: sequence numbers and packet counters, the length of the
  back-off, a `param_count` that changes during a list, the probe of the integer
  encoding, the field groups of a vehicle's state that are compared like those
  modelled, headings in a formation, unit conversion in a setpoint.

## Plan

All components with state of their own are modelled, and what the runs check of their
safety is proved. What would come next: a vehicle whose
`param_count` changes during a list; the retransmission of a command that still
waits in the queue when the answer arrives; and the decoders of the clients a
failed TCP server leaves behind (`nodes/mavlink-ai-connection.js:2497`).
