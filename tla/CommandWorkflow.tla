-------------------------- MODULE CommandWorkflow --------------------------
(***************************************************************************)
(* Command workflows (lib/command/command-workflow.js) that all send the   *)
(* same MAV_CMD to the same target over one connection, so they compete    *)
(* for one lock of the connection's LockManager                            *)
(* (lib/runtime/lock-manager.js).  The link loses, duplicates and reorders *)
(* frames; COMMAND_ACK carries no transaction id.                          *)
(*                                                                         *)
(* The connection appears as the send service it offers (SendService): a   *)
(* send is pending until its frame is written or refused.  The vehicle is  *)
(* external.                                                               *)
(***************************************************************************)
EXTENDS Integers, FiniteSets

CONSTANTS Workflows,     \* the workflows started, one per flow message
          MaxRetries,    \* maxRetries of every workflow
          MaxAcks,       \* bound: acknowledgements the vehicle sends
          MaxTeardowns   \* bound: times the connection is deactivated

ASSUME CommandAssumption ==
  /\ MaxRetries \in Nat
  /\ MaxAcks \in Nat
  /\ MaxTeardowns \in Nat

VARIABLES phase,       \* workflow state, or how it settled
          sending,     \* its send() promise is pending
          timer,       \* its timeout is armed
          retries,     \* _retries
          waits,       \* _inProgressWaits
          subscribed,  \* its COMMAND_ACK subscription is registered
          locked,      \* it holds a lock handle
          lockOwner,   \* LockManager: the owner recorded for the key
          active,      \* the connection is active
          teardowns,   \* deactivations so far
          written,     \* frames of each workflow that went out
          received,    \* vehicle: workflows of which it received a frame
          acks,        \* results of the acknowledgements under way
          acksSent     \* acknowledgements sent or duplicated so far

workflowVars == <<phase, sending, timer, retries, waits, subscribed, locked>>
linkVars == <<written, received, acks, acksSent>>
vars == <<workflowVars, lockOwner, active, teardowns, linkVars>>

Running == {"waiting_ack", "in_progress"}
Settled == {"accepted", "busy", "rejected", "timeout", "send_failed", "aborted"}
Results == {"ACCEPTED", "IN_PROGRESS", "DENIED"}

Free == "free"
\* Every workflow for the same command passes the same owner string.
Owner == "command"

\* f with v at the workflows ws.
Set(f, ws, v) == [w \in Workflows |-> IF w \in ws THEN v ELSE f[w]]

-----------------------------------------------------------------------------
(* Settling: _complete, _fail and _cleanup *)

\* Fault: the lock survives a failed workflow.
ReleasesOnSuccessOnly(w, how) == locked[w] /\ how = "accepted"

Releases(w, how) == locked[w]

\* Settling takes down the timer, the subscription and the lock handle.
TakeDown(ws, how) ==
  /\ phase' = Set(phase, ws, how)
  /\ timer' = Set(timer, ws, FALSE)
  /\ subscribed' = Set(subscribed, ws, FALSE)
  /\ locked' = Set(locked, ws, FALSE)
  /\ UNCHANGED <<retries, waits>>

\* release() frees the key whenever the owner string matches.
Settle(ws, how) ==
  /\ TakeDown(ws, how)
  /\ lockOwner' = IF lockOwner = Owner /\ \E w \in ws : Releases(w, how) THEN Free
                                                                      ELSE lockOwner

-----------------------------------------------------------------------------
(* run() and abort() *)

\* Fault: the lock is not consulted.
MayAcquireAlways(w) == TRUE

MayAcquire(w) == lockOwner = Free

Refused(w) ==
  /\ ~MayAcquire(w)
  /\ phase' = [phase EXCEPT ![w] = "busy"]
  /\ UNCHANGED <<sending, timer, retries, waits, subscribed, locked, lockOwner>>

Started(w) ==
  /\ MayAcquire(w)
  /\ active
  /\ phase' = [phase EXCEPT ![w] = "waiting_ack"]
  /\ lockOwner' = Owner
  /\ locked' = [locked EXCEPT ![w] = TRUE]
  /\ subscribed' = [subscribed EXCEPT ![w] = TRUE]
  /\ sending' = [sending EXCEPT ![w] = TRUE]
  /\ UNCHANGED <<timer, retries, waits>>

\* An inactive connection refuses the send, and the lock is released again.
StartedInactive(w) ==
  /\ MayAcquire(w)
  /\ ~active
  /\ phase' = [phase EXCEPT ![w] = "send_failed"]
  /\ lockOwner' = Free
  /\ UNCHANGED <<sending, timer, retries, waits, subscribed, locked>>

Run(w) ==
  /\ phase[w] = "idle"
  /\ Refused(w) \/ Started(w) \/ StartedInactive(w)
  /\ UNCHANGED <<active, teardowns, linkVars>>

\* The owning node closes.
Abort(w) ==
  /\ phase[w] \in Running
  /\ Settle({w}, "aborted")
  /\ UNCHANGED <<sending, active, teardowns, linkVars>>

-----------------------------------------------------------------------------
(* The send promise *)

\* _armTimeout returns at once when the workflow has settled.
Arms(w) == phase[w] \in Running

\* The frame goes out, and arrives or is lost.  A frame still waiting in the
\* queue goes out even after its workflow settled.
FrameOut(ws) ==
  /\ written' = [w \in Workflows |-> written[w] + (IF w \in ws THEN 1 ELSE 0)]
  /\ \E arriving \in SUBSET ws : received' = received \cup arriving
  /\ UNCHANGED <<acks, acksSent>>

SendResolves(w) ==
  /\ sending[w]
  /\ active
  /\ sending' = [sending EXCEPT ![w] = FALSE]
  /\ timer' = [timer EXCEPT ![w] = Arms(w)]
  /\ FrameOut({w})
  /\ UNCHANGED <<phase, retries, waits, subscribed, locked, lockOwner, active, teardowns>>

\* The write fails or the queue refuses the frame; a write that missed its
\* deadline may still put the frame on the wire.
SendRejects(w) ==
  /\ sending[w]
  /\ sending' = [sending EXCEPT ![w] = FALSE]
  /\ Settle({w} \cap {v \in Workflows : phase[v] \in Running}, "send_failed")
  /\ \E gone \in SUBSET {w} : FrameOut(gone)
  /\ UNCHANGED <<active, teardowns>>

-----------------------------------------------------------------------------
(* The timeout *)

MayRetry(w) == retries[w] < MaxRetries

\* Fault: silence after IN_PROGRESS is waited out for ever.
CountWaitNever(w) == waits[w]

CountWait(w) == waits[w] + 1

\* Fault: the timeout retransmits although the vehicle reported progress.
RetransmitsAnyway(w) == TRUE

Retransmits(w) == phase[w] # "in_progress"

\* The confirmation counter follows the retries.
Retransmit(w) ==
  /\ Retransmits(w) /\ MayRetry(w) /\ active
  /\ timer' = [timer EXCEPT ![w] = FALSE]
  /\ retries' = [retries EXCEPT ![w] = @ + 1]
  /\ phase' = [phase EXCEPT ![w] = "waiting_ack"]
  /\ sending' = [sending EXCEPT ![w] = TRUE]
  /\ UNCHANGED <<waits, subscribed, locked, lockOwner>>

RetransmitRefused(w) ==
  /\ Retransmits(w) /\ MayRetry(w) /\ ~active
  /\ Settle({w}, "send_failed")
  /\ UNCHANGED sending

ExtendWait(w) ==
  /\ ~Retransmits(w) /\ waits[w] < MaxRetries
  /\ waits' = [waits EXCEPT ![w] = CountWait(w)]
  /\ UNCHANGED <<phase, sending, timer, retries, subscribed, locked, lockOwner>>

GiveUp(w) ==
  /\ IF Retransmits(w) THEN ~MayRetry(w) ELSE waits[w] >= MaxRetries
  /\ Settle({w}, "timeout")
  /\ UNCHANGED sending

\* A timer that fires after its workflow settled does nothing.
TimeoutIgnored(w) ==
  /\ timer' = [timer EXCEPT ![w] = FALSE]
  /\ UNCHANGED <<phase, sending, retries, waits, subscribed, locked, lockOwner>>

TimeoutExpires(w) ==
  /\ timer[w]
  /\ IF phase[w] \in Running
       THEN Retransmit(w) \/ RetransmitRefused(w) \/ ExtendWait(w) \/ GiveUp(w)
       ELSE TimeoutIgnored(w)
  /\ UNCHANGED <<active, teardowns, linkVars>>

-----------------------------------------------------------------------------
(* COMMAND_ACK *)

\* The workflows a COMMAND_ACK that passes the system, component, command and
\* addressee filters is dispatched to; whose frame it answers cannot be told.
Listening == {w \in Workflows : subscribed[w]}

\* _onAck in each of them.
OnAck(result) ==
  \/ /\ result = "IN_PROGRESS"
     /\ phase' = Set(phase, Listening, "in_progress")
     /\ waits' = Set(waits, Listening, 0)
     /\ timer' = Set(timer, Listening, TRUE)
     /\ UNCHANGED <<retries, subscribed, locked, lockOwner>>
  \/ result = "ACCEPTED" /\ Settle(Listening, "accepted")
  \/ result = "DENIED" /\ Settle(Listening, "rejected")

DeliverAck(result) ==
  /\ active
  /\ result \in acks
  /\ \/ acks' = acks \ {result} /\ UNCHANGED acksSent
     \/ acksSent < MaxAcks /\ acksSent' = acksSent + 1 /\ UNCHANGED acks  \* duplicated
  /\ OnAck(result)
  /\ UNCHANGED <<sending, active, teardowns, written, received>>

LoseAck(result) ==
  /\ result \in acks
  /\ acks' = acks \ {result}
  /\ UNCHANGED <<workflowVars, lockOwner, active, teardowns, written, received, acksSent>>

\* External: the vehicle acknowledges a frame it received.
VehicleAcks(result) ==
  /\ received # {}
  /\ acksSent < MaxAcks
  /\ acksSent' = acksSent + 1
  /\ acks' = acks \cup {result}
  /\ UNCHANGED <<workflowVars, lockOwner, active, teardowns, written, received>>

-----------------------------------------------------------------------------
(* The connection *)

\* deactivate() clears the queue, so every pending send is rejected, and drops
\* every lock; subscriptions stay.  The one frame in flight may still go out.
Deactivate ==
  /\ active
  /\ teardowns < MaxTeardowns
  /\ active' = FALSE
  /\ teardowns' = teardowns + 1
  /\ LET rejected == {w \in Workflows : sending[w]}
     IN  /\ TakeDown({w \in rejected : phase[w] \in Running}, "send_failed")
         /\ \E inFlight \in SUBSET rejected : Cardinality(inFlight) <= 1 /\ FrameOut(inFlight)
  /\ sending' = [w \in Workflows |-> FALSE]
  /\ lockOwner' = Free

Reactivate ==
  /\ ~active
  /\ active' = TRUE
  /\ UNCHANGED <<workflowVars, lockOwner, teardowns, linkVars>>

-----------------------------------------------------------------------------
Init ==
  /\ phase = [w \in Workflows |-> "idle"]
  /\ sending = [w \in Workflows |-> FALSE]
  /\ timer = [w \in Workflows |-> FALSE]
  /\ retries = [w \in Workflows |-> 0]
  /\ waits = [w \in Workflows |-> 0]
  /\ subscribed = [w \in Workflows |-> FALSE]
  /\ locked = [w \in Workflows |-> FALSE]
  /\ lockOwner = Free
  /\ active = TRUE
  /\ teardowns = 0
  /\ written = [w \in Workflows |-> 0]
  /\ received = {}
  /\ acks = {}
  /\ acksSent = 0

Next ==
  \/ \E w \in Workflows :
       Run(w) \/ Abort(w) \/ SendResolves(w) \/ SendRejects(w) \/ TimeoutExpires(w)
  \/ \E result \in Results : DeliverAck(result) \/ LoseAck(result) \/ VehicleAcks(result)
  \/ Deactivate
  \/ Reactivate

Spec == Init /\ [][Next]_vars

\* The queue settles every send (OutboundQueue implements SendService), and an
\* armed timer fires.  The vehicle and the link promise nothing.
Fairness ==
  \A w \in Workflows :
    WF_vars(SendResolves(w) \/ SendRejects(w)) /\ WF_vars(TimeoutExpires(w))

-----------------------------------------------------------------------------
(* Properties *)

TypeOK ==
  /\ phase \in [Workflows -> {"idle"} \cup Running \cup Settled]
  /\ sending \in [Workflows -> BOOLEAN]
  /\ timer \in [Workflows -> BOOLEAN]
  /\ retries \in [Workflows -> 0..MaxRetries]
  /\ waits \in [Workflows -> 0..MaxRetries]
  /\ subscribed \in [Workflows -> BOOLEAN]
  /\ locked \in [Workflows -> BOOLEAN]
  /\ lockOwner \in {Free, Owner}
  /\ active \in BOOLEAN
  /\ teardowns \in 0..MaxTeardowns
  /\ written \in [Workflows -> Nat]
  /\ received \subseteq Workflows
  /\ acks \subseteq Results
  /\ acksSent \in 0..MaxAcks

\* "makes the second identical request fail fast before anything is sent" (run):
\* two identical commands never wait for acknowledgements at the same time.
OneAtATime ==
  \A v, w \in Workflows : phase[v] \in Running /\ phase[w] \in Running => v = w

\* The same as far as the code keeps it: until deactivate() drops the locks of
\* workflows that go on waiting.
OneAtATimeUntilTeardown == teardowns = 0 => OneAtATime

\* Settled workflows are inert: no timer, subscription or lock handle of theirs
\* remains, whichever of an early ack, a late send, a timeout or an abort won.
SettledIsInert ==
  \A w \in Workflows :
    phase[w] \notin Running => ~timer[w] /\ ~subscribed[w] /\ ~locked[w]

\* A workflow that is still waiting can still end: its send is pending or its
\* timer is armed.
RunningCanEnd ==
  \A w \in Workflows : phase[w] \in Running => sending[w] \/ timer[w]

\* The vehicle never sees more frames of one command than the first one and its
\* retransmissions, whatever happens to acknowledgements.
BoundedTransmissions ==
  \A w \in Workflows : written[w] + (IF sending[w] THEN 1 ELSE 0) <= MaxRetries + 1

\* "The lock is released on every settle path" (run): COMMAND_BUSY is never
\* reported while no identical command is waiting.
BusyIsTruthful ==
  [][\A w \in Workflows : phase[w] = "idle" /\ phase'[w] = "busy"
       => \E v \in Workflows : phase[v] \in Running]_vars

\* "After IN_PROGRESS the command protocol says to extend the wait and never
\* retransmit" (_armTimeout): no send is issued from then on.
NoResendAfterProgress ==
  [][\A w \in Workflows : phase[w] = "in_progress" /\ ~sending[w] => ~sending'[w]]_vars

\* Every workflow settles: no acknowledgement pattern, lost frame or stalled
\* operation leaves a flow waiting for ever.
EveryRunSettles ==
  \A w \in Workflows : phase[w] \in Running ~> phase[w] \in Settled
=============================================================================
