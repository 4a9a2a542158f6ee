------------------------------ MODULE MCNodes ------------------------------
(***************************************************************************)
(* The nodes of the package, one at a time: the lifecycle of the connection*)
(* node, and the flow nodes that act on vehicles or tell of them.  kind    *)
(* names the one that runs, the others stay in an initial state.  What a   *)
(* flow node needs of its connection is part of its own module.            *)
(***************************************************************************)
EXTENDS ConnectionLifecycle, FanoutTargets, VehicleRegistry

CONSTANTS MaxInputs, MoveDeploys,  \* of MoveStream
          Vehicles, MaxPin,        \* of FormationSlots
          Modes, MaxRebuilds,      \* of VehicleState
          Inputs, MaxConnections   \* of ActionNode

\* What the code fixes of the constants: a fan-out may run one worker at a time,
\* vehicles are told apart by their system ids, slots are counted from 0; 0 is no
\* flight mode, and no input.
ASSUME NodesAssumption ==
  /\ 1 \in Concurrencies
  /\ Vehicles \subseteq Nat /\ IsFiniteSet(Vehicles) /\ MaxPin \in Nat
  /\ MaxInputs \in Nat /\ MoveDeploys \in Nat /\ MaxConnections \in Nat \ {0}
  /\ 0 \notin Modes
  /\ 0 \notin Inputs

VARIABLES
  kind,
  fanoutConfig, targets, next, inFlight, class, aborted, fanoutClosed, pc, fanoutOutput,
  spec, built,
  moveDelivery, ttl, connected, streaming, expiry, errored, moveSending, gen, pending, shots,
  moveClosed, inputs, moveDeploys, emitted,
  coordinate, mask, given, message, refused,
  swarmFleet, emitOnChange, swarmAttached, lastSignature, announced, swarmClosed,
  fleet, staleAction, leader, due, lastPlace, lastFollowers, attached, closed, placed, alone, judged,
  shape, ids, pins, startSlot, answer, points,
  stateAttached, record, baseline, told, rebuilds, stateClosed,
  nodeKind, delivery, connection, deployed, inputPhase, sentOn, output, named, holder, actionClosed

Fan == INSTANCE Fanout WITH config <- fanoutConfig, closed <- fanoutClosed, output <- fanoutOutput
FanMessage == INSTANCE FanoutMessage
Move == INSTANCE MoveStream WITH delivery <- moveDelivery, sending <- moveSending, closed <- moveClosed,
          deploys <- moveDeploys, MaxDeploys <- MoveDeploys
Point == INSTANCE Setpoint
Swarm == INSTANCE SwarmNode WITH fleet <- swarmFleet, attached <- swarmAttached, closed <- swarmClosed
Form == INSTANCE Formation
Slots == INSTANCE FormationSlots
State == INSTANCE VehicleState WITH attached <- stateAttached, closed <- stateClosed
Action == INSTANCE ActionNode WITH kind <- nodeKind, phase <- inputPhase, closed <- actionClosed

fanoutVars == <<fanoutConfig, targets, next, inFlight, class, aborted, fanoutClosed, pc, fanoutOutput>>
messageVars == <<spec, built>>
moveVars == <<moveDelivery, ttl, connected, streaming, expiry, errored, moveSending, gen, pending,
              shots, moveClosed, inputs, moveDeploys, emitted>>
setpointVars == <<coordinate, mask, given, message, refused>>
swarmVars == <<swarmFleet, emitOnChange, swarmAttached, lastSignature, announced, swarmClosed>>
formationVars == <<fleet, staleAction, leader, due, lastPlace, lastFollowers, attached, closed,
                   placed, alone, judged>>
slotVars == <<shape, ids, pins, startSlot, answer, points>>
stateVars == <<stateAttached, record, baseline, told, rebuilds, stateClosed>>
actionVars == <<nodeKind, delivery, connection, deployed, inputPhase, sentOn, output, named, holder,
                actionClosed>>
nodes == <<kind, vars, fanoutVars, messageVars, moveVars, setpointVars, swarmVars, formationVars,
           slotVars, stateVars, actionVars>>

-----------------------------------------------------------------------------
Kinds == {"lifecycle", "fanout", "fanoutMessage", "move", "setpoint", "swarm", "formation", "slots",
          "state", "action"}

TwoVehicles == {<<1, 1>>, <<2, 1>>}

QuietFanout == [delivery |-> "build", concurrency |-> 1, spacing |-> FALSE,
                stopOnError |-> FALSE, broadcast |-> TRUE, dryRun |-> TRUE]
NoPosition == [position |-> "none", withAlt |-> FALSE, raw |-> FALSE, z |-> FALSE, params |-> FALSE]
NoPins == [v \in {} |-> 0]

NodesInit ==
  /\ kind \in Kinds
  /\ IF kind = "lifecycle" THEN Init ELSE Init /\ ~active
  /\ IF kind = "fanout" THEN Fan!Init ELSE Fan!Start(QuietFanout, <<>>)
  /\ IF kind = "fanoutMessage" THEN FanMessage!Init ELSE FanMessage!Start(NoPosition)
  /\ IF kind = "move" THEN Move!Init ELSE Move!Start("build", FALSE)
  /\ IF kind = "setpoint" THEN Point!Init ELSE Point!Start("local", {}, {})
  /\ IF kind = "swarm" THEN Swarm!Init ELSE Swarm!Start(FALSE)
  /\ IF kind = "formation" THEN Form!Init ELSE Form!Start("hold", 1)
  /\ IF kind = "slots" THEN Slots!Init ELSE Slots!Start("line", {}, NoPins, 0)
  /\ State!Init
  /\ IF kind = "action" THEN Action!Init ELSE Action!Start("command", "build")

NodesNext ==
  /\ UNCHANGED kind
  /\ IF kind = "lifecycle" THEN Next ELSE UNCHANGED vars
  /\ IF kind = "fanout" THEN Fan!Next ELSE UNCHANGED fanoutVars
  /\ IF kind = "fanoutMessage" THEN FanMessage!Next ELSE UNCHANGED messageVars
  /\ IF kind = "move" THEN Move!Next ELSE UNCHANGED moveVars
  /\ IF kind = "setpoint" THEN Point!Next ELSE UNCHANGED setpointVars
  /\ IF kind = "swarm" THEN Swarm!Next ELSE UNCHANGED swarmVars
  /\ IF kind = "formation" THEN Form!Next ELSE UNCHANGED formationVars
  /\ IF kind = "slots" THEN Slots!Next ELSE UNCHANGED slotVars
  /\ IF kind = "state" THEN State!Next ELSE UNCHANGED stateVars
  /\ IF kind = "action" THEN Action!Next ELSE UNCHANGED actionVars

NodesSpec == NodesInit /\ [][NodesNext]_nodes

\* The fairness each component's module states and justifies.
NodesFairSpec ==
  /\ NodesSpec
  /\ Fairness
  /\ Fan!Fairness /\ Move!Fairness
  /\ Swarm!Fairness /\ Form!Fairness /\ State!Fairness
  /\ Action!Fairness

-----------------------------------------------------------------------------
(* The properties of the components, stated and explained in their modules. *)

HaltsDispatch == Fan!HaltsDispatch
TableConverges == Swarm!TableConverges
NewcomersPlaced == Form!NewcomersPlaced
EveryonePlaced == Form!EveryonePlaced
SuccessionEnds == Form!SuccessionEnds
TransitionsAddUp == State!TransitionsAddUp

\* A connection whose close handler has run starts nothing any more, and has let
\* go of every port it bound.
ClosedForGood == NothingStartsAfterClose /\ ReleasedWhenClosed

\* Whoever waits, waits for something that is under way: a connection for a
\* restart, a fan-out for a worker, a stream with a time to live for its
\* deadline, and a lock for the one workflow that holds it.
NobodyWaitsInVain ==
  /\ WaitsAreReal
  /\ Fan!AwaitsWorkers
  /\ Move!DeadlineStands
  /\ Action!LocksAreOwned

\* What a node reports is what happened: a fan-out accounts for every vehicle,
\* a failed send names the connection it used, a swarm node that is quiet has
\* emitted its table as it is, and the transitions of a vehicle add up to its
\* last snapshot.
ReportAccounts ==
  /\ Fan!ReportAccounts /\ Fan!WithinConcurrency
  /\ Action!NamesItsConnection
  /\ Swarm!QuietIsUpToDate
  /\ State!ToldTruly

\* A stream that is stopped and a node that is closed say nothing more, though
\* their sends and workflows settle later.
StoppedIsSilent == Move!StoppedIsSilent /\ Move!ClosedIsSilent /\ Action!ObsoleteIsSilent

\* What a node begins comes to an end: a fan-out is answered, an abandoned
\* stream stops, every input and workflow lock is released, and a deploy is
\* not held up by the close handler of the connection.
EverythingReleased == CloseCompletes /\ Fan!Answered /\ Move!DeadmanStops /\ Action!EverythingReleased

\* No vehicle is sent to a place nobody asked for: both forms of a fan-out
\* command name one place, a setpoint follows only fields that were given, and
\* the points of a formation are all apart.
SentWhereAsked == FanMessage!SamePlace /\ Point!NothingInvented /\ Slots!EachAlone
=============================================================================
