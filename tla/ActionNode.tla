------------------------------ MODULE ActionNode -----------------------------
(***************************************************************************)
(* How the nodes that act on a vehicle answer their inputs: the command,   *)
(* payload, mission and parameter nodes (nodes/mavlink-ai-*.js) with       *)
(* lib/util/node-errors.js.  An input is refused, answered at once, or     *)
(* answered when its send or its workflow settles; meanwhile a deploy may  *)
(* replace the connection under the running node, or close the node.       *)
(***************************************************************************)
EXTENDS Naturals, FiniteSets

CONSTANTS Inputs,        \* messages into the node
          MaxConnections \* bound on the connections deployed one after another

Connections == 1..MaxConnections
Nobody == 0 \* no connection, no input

VARIABLES kind,       \* which node
          delivery,   \* "build", "send" or "await"
          connection, \* node.connection, refreshed on flows:started
          deployed,   \* connections deployed so far
          phase,      \* input -> "new", "pending" or "done"
          sentOn,     \* input -> the connection its send or workflow runs on
          output,     \* input -> what was sent for it
          named,      \* input -> the connection its error names
          holder,     \* connection -> input that holds the workflow lock there
          closed

config == <<kind, delivery>>
vars == <<config, connection, deployed, phase, sentOn, output, named, holder, closed>>

Kinds == {"command", "payload", "mission", "param"}
Locks(k) == k \in {"mission", "param"} \* a lock per connection, profile and target

-----------------------------------------------------------------------------
\* Fault: the error names the connection the node has now.
NamedLive(i) == connection

\* connectionName: the connection captured for the send, where one is captured.
Named(i) ==
  IF kind \in {"command", "payload"} /\ sentOn[i] # Nobody THEN sentOn[i] ELSE connection

\* fail: the structured error leaves on the error output, once.
Fail(i) ==
  /\ output' = [output EXCEPT ![i] = "error"]
  /\ named' = [named EXCEPT ![i] = Named(i)]
  /\ phase' = [phase EXCEPT ![i] = "done"]

\* A configuration, profile, target, field or identity that is not usable.
Refuse(i) ==
  /\ ~closed /\ phase[i] = "new"
  /\ Fail(i)
  /\ UNCHANGED <<config, connection, deployed, sentOn, holder, closed>>

NoConnection(i) == delivery # "build" /\ connection = Nobody

LockHeld(i) == Locks(kind) /\ holder[connection] # Nobody

\* NO_CONNECTION, or LOCK_HELD: refused without a choice.
RefuseBusy(i) ==
  /\ ~closed /\ phase[i] = "new"
  /\ NoConnection(i) \/ (connection # Nobody /\ LockHeld(i))
  /\ Fail(i)
  /\ UNCHANGED <<config, connection, deployed, sentOn, holder, closed>>

\* Build only: the message is the answer.
Build(i) ==
  /\ ~closed /\ phase[i] = "new" /\ delivery = "build"
  /\ output' = [output EXCEPT ![i] = "built"]
  /\ phase' = [phase EXCEPT ![i] = "done"]
  /\ UNCHANGED <<config, connection, deployed, sentOn, named, holder, closed>>

Runs(i) ==
  /\ phase' = [phase EXCEPT ![i] = "pending"]
  /\ sentOn' = [sentOn EXCEPT ![i] = connection]

\* Send or await of a command or payload node: nothing is locked.
BeginSend(i) ==
  /\ ~closed /\ phase[i] = "new" /\ delivery # "build"
  /\ connection # Nobody /\ ~Locks(kind)
  /\ Runs(i)
  /\ UNCHANGED <<config, connection, deployed, output, named, holder, closed>>

\* A workflow of a mission or parameter node, under the lock.
BeginLocked(i) ==
  /\ ~closed /\ phase[i] = "new"
  /\ connection # Nobody /\ Locks(kind) /\ ~LockHeld(i)
  /\ Runs(i)
  /\ holder' = [holder EXCEPT ![connection] = i]
  /\ UNCHANGED <<config, connection, deployed, output, named, closed>>

\* Fault: the lock is released on the connection the node has now.
ReleaseLive(i) == [c \in Connections |-> IF c = connection THEN Nobody ELSE holder[c]]

\* The handle's release, in the finally of the handler.
Release(i) == [c \in Connections |-> IF holder[c] = i THEN Nobody ELSE holder[c]]

\* Fault: a node that is closed answers all the same.
ObsoleteNever == FALSE

Obsolete == closed

\* An obsolete node finishes the input and says nothing.
EndsSilently(i) ==
  /\ Obsolete
  /\ phase' = [phase EXCEPT ![i] = "done"]
  /\ UNCHANGED <<output, named>>

Answers(i) ==
  /\ ~Obsolete
  /\ output' = [output EXCEPT ![i] = "result"]
  /\ phase' = [phase EXCEPT ![i] = "done"]
  /\ UNCHANGED named

\* The send or the workflow settles: with a result, or failed or aborted.
Settle(i) ==
  /\ phase[i] = "pending"
  /\ EndsSilently(i) \/ Answers(i) \/ (~Obsolete /\ Fail(i))
  /\ holder' = Release(i)
  /\ UNCHANGED <<config, connection, deployed, sentOn, closed>>

-----------------------------------------------------------------------------
\* watchConfigBadge's refresh on flows:started: another connection, or none.
Refresh ==
  /\ ~closed
  /\ \/ /\ deployed < MaxConnections
        /\ deployed' = deployed + 1
        /\ connection' = deployed + 1
     \/ connection # Nobody /\ connection' = Nobody /\ UNCHANGED deployed
  /\ UNCHANGED <<config, phase, sentOn, output, named, holder, closed>>

\* The workflows are aborted: they settle, and nothing is sent for them.
Close ==
  /\ ~closed
  /\ closed' = TRUE
  /\ UNCHANGED <<config, connection, deployed, phase, sentOn, output, named, holder>>

-----------------------------------------------------------------------------
Start(k, d) ==
  /\ kind = k /\ delivery = d
  /\ connection = 1 /\ deployed = 1
  /\ phase = [i \in Inputs |-> "new"]
  /\ sentOn = [i \in Inputs |-> Nobody]
  /\ output = [i \in Inputs |-> "none"]
  /\ named = [i \in Inputs |-> Nobody]
  /\ holder = [c \in Connections |-> Nobody]
  /\ closed = FALSE

\* Mission and parameter nodes always run a workflow.
Configured(k, d) == Locks(k) => d = "await"

Init == \E k \in Kinds, d \in {"build", "send", "await"} : Configured(k, d) /\ Start(k, d)

Next ==
  \/ \E i \in Inputs : Refuse(i) \/ RefuseBusy(i) \/ Build(i)
                    \/ BeginSend(i) \/ BeginLocked(i) \/ Settle(i)
  \/ Refresh \/ Close

Spec == Init /\ [][Next]_vars

\* A send settles and a workflow ends: its timeouts and retries are bounded.
Fairness == \A i \in Inputs : WF_vars(Settle(i))

-----------------------------------------------------------------------------
(* Properties *)

\* "a send failure must name the connection it actually used, even if a live
\* redeploy replaced node.connection mid-flight": the command and payload nodes.
NamesItsConnection ==
  \A i \in Inputs :
    kind \in {"command", "payload"} /\ output[i] = "error" /\ sentOn[i] # Nobody => named[i] = sentOn[i]

\* Nothing leaves a node that is closed, though the sends and workflows it had
\* running settle afterwards.
ObsoleteIsSilent == [][closed => UNCHANGED output]_vars

\* The workflow lock of a connection is held by the one input whose workflow runs
\* there, on the connection it began on, and by nobody else: two workflows never
\* share a target, and none leaves its lock behind (the handle released in the
\* handler's finally), whatever a deploy made of node.connection meanwhile.
LocksAreOwned ==
  /\ \A c \in Connections : holder[c] # Nobody =>
       holder[c] \in Inputs /\ phase[holder[c]] = "pending" /\ sentOn[holder[c]] = c
  /\ Locks(kind) => \A i \in Inputs : phase[i] = "pending" =>
       sentOn[i] \in Connections /\ holder[sentOn[i]] = i

\* Once nothing runs, no connection the node ever used is locked.
ReleasedWhenIdle ==
  [][(\A i \in Inputs : phase'[i] # "pending") => \A c \in Connections : holder'[c] = Nobody]_vars

\* Every input is finished, and the workflow lock of every connection the node
\* ever used is free once nothing runs, after a deploy or a close in between too.
EverythingReleased == (\A i \in Inputs : []<>(phase[i] # "pending")) /\ ReleasedWhenIdle
=============================================================================
