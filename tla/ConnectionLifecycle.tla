------------------------ MODULE ConnectionLifecycle ------------------------
(***************************************************************************)
(* One connection node across deploys (nodes/mavlink-ai-connection.js):    *)
(* deactivate() when its profile or identity is gone, reactivate() when    *)
(* both are back, the transport each of them stops or starts, and the      *)
(* close handler.  Stopping a transport is asynchronous: its port stays    *)
(* bound until stop() settles.                                             *)
(***************************************************************************)
EXTENDS Integers, FiniteSets

CONSTANTS MaxDeploys,     \* bound: deploys that leave this node in place
          MaxTeardowns    \* bound: deactivations

ASSUME LifecycleAssumption == MaxDeploys \in Nat /\ MaxTeardowns \in Nat

VARIABLES active,        \* _active
          transport,     \* _transport: number of the transport, or NoTransport
          failed,        \* the transport could not be created or started
          stopping,      \* transports whose stop() has not settled
          deactivating,  \* _deactivating: the transport it waits for, or Done
          restarts,      \* pending startNow reactions, by the promise they wait for
          heartbeats,    \* the heartbeat timers run
          node,          \* "open", "closing" or "closed"
          closeWaits,    \* the promise the close handler waits for
          created,       \* transports created so far
          deploys,
          teardowns

vars == <<active, transport, failed, stopping, deactivating, restarts, heartbeats, node,
          closeWaits, created, deploys, teardowns>>

NoTransport == 0
Done == 0      \* a promise that has settled

-----------------------------------------------------------------------------
(* startTransport() *)

\* The transport is created and started, or the attempt fails for good.
StartTransport(startable) ==
  IF startable THEN /\ created' = created + 1
                    /\ transport' = created + 1
                    /\ failed' = FALSE
               ELSE /\ transport' = NoTransport
                    /\ failed' = TRUE
                    /\ UNCHANGED created

\* Fault: startNow does not look at _active.
StartsNowAnyway == transport = NoTransport

\* Fault: a restart is skipped as long as _deactivating is set, settled or not.
StartsNowUnlessDeactivating == active /\ transport = NoTransport /\ deactivating = Done

\* startNow: the teardown has settled; start once, and only if still wanted.
StartsNow == active /\ transport = NoTransport

\* The 'listening' or 'connected' event of the transport in use.
TransportUp ==
  /\ transport # NoTransport
  /\ heartbeats' = TRUE
  /\ UNCHANGED <<active, transport, failed, stopping, deactivating, restarts, node,
                 closeWaits, created, deploys, teardowns>>

-----------------------------------------------------------------------------
(* deactivate() and reactivate() *)

\* stopHeartbeats.
HeartbeatsAfterTeardown == FALSE

\* The transport in use is released; without one there is nothing to wait for.
Release ==
  /\ transport' = NoTransport
  /\ stopping' = stopping \cup ({transport} \ {NoTransport})
  /\ heartbeats' = HeartbeatsAfterTeardown

\* A deploy leaves the required profile or identity missing or invalid.
Deactivate ==
  /\ active
  /\ node = "open"
  /\ teardowns < MaxTeardowns
  /\ deploys < MaxDeploys
  /\ teardowns' = teardowns + 1
  /\ deploys' = deploys + 1
  /\ active' = FALSE
  /\ Release
  /\ deactivating' = IF transport = NoTransport THEN Done ELSE transport
  /\ UNCHANGED <<failed, restarts, node, closeWaits, created>>

\* Fault: the restart does not wait for the teardown under way.
WaitsForNothing == Done

WaitsFor == IF deactivating \in stopping THEN deactivating ELSE Done

\* A deploy restores a valid configuration.
Reactivate(startable) ==
  /\ ~active
  /\ node = "open"
  /\ deploys < MaxDeploys
  /\ deploys' = deploys + 1
  /\ active' = TRUE
  /\ \/ /\ WaitsFor = Done
        /\ StartTransport(startable)
        /\ UNCHANGED restarts
     \/ /\ WaitsFor # Done
        /\ restarts' = restarts \cup {WaitsFor}
        /\ failed' = FALSE
        /\ UNCHANGED <<transport, created>>
  /\ UNCHANGED <<stopping, deactivating, heartbeats, node, closeWaits, teardowns>>

RebuildsHeartbeats == transport # NoTransport

\* A deploy that finds a running connection: restartHeartbeats.
Reconcile ==
  /\ active
  /\ node = "open"
  /\ deploys < MaxDeploys
  /\ deploys' = deploys + 1
  /\ heartbeats' = RebuildsHeartbeats
  /\ UNCHANGED <<active, transport, failed, stopping, deactivating, restarts, node,
                 closeWaits, created, teardowns>>

-----------------------------------------------------------------------------
(* Settlement of stop(), and close *)

\* stop() settles: the port is free, and what waited for it proceeds.
StopSettles(t, startable) ==
  /\ t \in stopping
  /\ stopping' = stopping \ {t}
  /\ restarts' = restarts \ {t}
  /\ IF t \in restarts /\ StartsNow
       THEN StartTransport(startable)
       ELSE UNCHANGED <<transport, failed, created>>
  /\ node' = IF node = "closing" /\ closeWaits = t THEN "closed" ELSE node
  /\ UNCHANGED <<active, deactivating, heartbeats, closeWaits, deploys, teardowns>>

\* Fault: a teardown that is already under way is not waited for.
CloseWaitsForTransportOnly == transport

\* The stop() of the transport in use, else the teardown under way.
CloseWaitsFor ==
  IF transport # NoTransport THEN transport
  ELSE IF deactivating \in stopping THEN deactivating ELSE Done

Close ==
  /\ node = "open"
  /\ active' = FALSE
  /\ Release
  /\ closeWaits' = CloseWaitsFor
  /\ node' = IF CloseWaitsFor = Done THEN "closed" ELSE "closing"
  /\ UNCHANGED <<failed, deactivating, restarts, created, deploys, teardowns>>

\* Fault: only the stop() begun by the close handler itself is guarded.
GuardFiresOwnStopOnly == node = "closing" /\ closeWaits # deactivating

GuardFires == node = "closing"

\* done() is called although stop() never settled (CLOSE_STOP_TIMEOUT_MS).
CloseTimesOut ==
  /\ GuardFires
  /\ node' = "timed_out"
  /\ UNCHANGED <<active, transport, failed, stopping, deactivating, restarts, heartbeats,
                 closeWaits, created, deploys, teardowns>>

-----------------------------------------------------------------------------
\* The node was built with a valid configuration, or inactive.
Init ==
  /\ active \in BOOLEAN
  /\ created = IF active THEN 1 ELSE 0
  /\ transport = IF active THEN 1 ELSE NoTransport
  /\ failed = FALSE
  /\ stopping = {}
  /\ deactivating = Done
  /\ restarts = {}
  /\ heartbeats = FALSE
  /\ node = "open"
  /\ closeWaits = Done
  /\ deploys = 0
  /\ teardowns = 0

Next ==
  \/ TransportUp
  \/ Deactivate
  \/ \E startable \in BOOLEAN : Reactivate(startable)
  \/ Reconcile
  \/ \E t \in stopping, startable \in BOOLEAN : StopSettles(t, startable)
  \/ Close
  \/ CloseTimesOut

Spec == Init /\ [][Next]_vars

\* The guard timer of the close handler fires; stop() may hang for ever.
Fairness == WF_vars(CloseTimesOut)

\* The operating system closes every socket it was told to close.
SocketsClose ==
  \A t \in 1..(MaxDeploys + 1) :
    WF_vars(\E startable \in BOOLEAN : StopSettles(t, startable))

-----------------------------------------------------------------------------
(* Properties *)

TypeOK ==
  /\ active \in BOOLEAN
  /\ created \in Nat
  /\ transport \in 0..created
  /\ failed \in BOOLEAN
  /\ stopping \subseteq 1..created
  /\ deactivating \in 0..created
  /\ restarts \subseteq 1..created
  /\ heartbeats \in BOOLEAN
  /\ node \in {"open", "closing", "closed", "timed_out"}
  /\ closeWaits \in 0..created
  /\ deploys \in 0..MaxDeploys
  /\ teardowns \in 0..MaxTeardowns

\* "Waits for any in-flight teardown to finish first so the port is free before
\* it is rebound" (reactivate): no transport starts while another one is still
\* releasing its port.
PortFreeBeforeStart == [][created' > created => stopping' = {}]_vars

\* The same as far as the code keeps it: with one deactivation at most, so that
\* _deactivating always stands for the stop() under way.
PortFreeInOneTeardown ==
  [][created' > created /\ teardowns <= 1 => stopping' = {}]_vars

\* The close handler answers Node-RED only when every port the node ever bound
\* is free, unless the guard timer cut it short, so that a replacement node can
\* bind the same one; with one deactivation at most, as above.
ReleasedWhenClosed ==
  node = "closed" /\ teardowns <= 1 => stopping = {} /\ transport = NoTransport

\* "a reactivate() scheduled before this close ran would otherwise start a fresh
\* transport on a closed node" (close handler): it never does.
NothingStartsAfterClose == node # "open" => transport = NoTransport /\ ~active

\* No heartbeat is sent for a connection that is failed closed or has no link.
HeartbeatsOnlyOnTransport == heartbeats => active /\ transport # NoTransport

\* An active connection without a transport knows why: the start failed, or a
\* restart is pending on a stop() that is really under way, however often it was
\* deactivated and restored meanwhile; a close handler waits for one as well, so
\* neither hangs on a promise nobody settles.
WaitsAreReal ==
  /\ active /\ transport = NoTransport /\ ~failed => restarts # {}
  /\ restarts \subseteq stopping
  /\ node = "closing" => closeWaits \in stopping

\* A connection whose configuration is valid again gets its transport back, or
\* reports that it cannot be started, provided sockets do close.
RestoredComesUp ==
  SocketsClose => (active ~> transport # NoTransport \/ failed \/ ~active)

\* Node-RED's deploy is never hung by a close handler, even when the stop() it
\* waits for never settles.
CloseCompletes == node = "closing" ~> node \in {"closed", "timed_out"}
=============================================================================
