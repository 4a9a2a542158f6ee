---------------------- MODULE ConnectionLifecycleProofs ----------------------
(* Theorems about ConnectionLifecycle, for every number of deploys and        *)
(* teardowns.                                                                 *)
EXTENDS ConnectionLifecycle, TLAPS

-----------------------------------------------------------------------------
(* The inductive invariant *)

\* A transport in use belongs to an active connection.
TransportWhileActive == transport # NoTransport => active

\* In an open node, up to its first teardown nothing is stopping; up to the
\* second, only the stop() that _deactivating stands for is; and nothing is while
\* a transport is in use.
StoppingIsKnown ==
  node = "open" =>
    /\ teardowns = 0 => stopping = {}
    /\ teardowns <= 1 => stopping \subseteq {deactivating}
    /\ teardowns <= 1 /\ transport # NoTransport => stopping = {}

\* The close handler waits for all there is to wait for.
CloseWaitsForAll == node = "closing" /\ teardowns <= 1 => stopping \subseteq {closeWaits}

Inv ==
  /\ TypeOK
  /\ NothingStartsAfterClose
  /\ HeartbeatsOnlyOnTransport
  /\ ReleasedWhenClosed
  /\ TransportWhileActive
  /\ StoppingIsKnown
  /\ CloseWaitsForAll

LEMMA InitInv == Init => Inv
<1> SUFFICES ASSUME Init PROVE Inv
  OBVIOUS
<1> USE LifecycleAssumption DEF Init, NoTransport, Done
<1>1. TypeOK
  <2>1. {active, failed, heartbeats} \subseteq BOOLEAN
    OBVIOUS
  <2>2. created \in Nat /\ transport \in 0..created /\ stopping \subseteq 1..created
    OBVIOUS
  <2> QED
    BY <2>1, <2>2 DEF TypeOK
<1>2. NothingStartsAfterClose /\ HeartbeatsOnlyOnTransport /\ ReleasedWhenClosed
  BY DEF NothingStartsAfterClose, HeartbeatsOnlyOnTransport, ReleasedWhenClosed
<1>3. TransportWhileActive /\ StoppingIsKnown /\ CloseWaitsForAll
  BY DEF TransportWhileActive, StoppingIsKnown, CloseWaitsForAll
<1> QED
  BY <1>1, <1>2, <1>3 DEF Inv

-----------------------------------------------------------------------------
(* Each action preserves the invariant *)

LEMMA TransportUpInv == Inv /\ TransportUp => Inv'
<1> SUFFICES ASSUME Inv, TransportUp PROVE Inv'
  OBVIOUS
<1> USE DEF Inv, TransportUp
<1>1. TypeOK'
  BY DEF TypeOK
<1>2. (NothingStartsAfterClose /\ HeartbeatsOnlyOnTransport /\ ReleasedWhenClosed)'
  BY DEF NothingStartsAfterClose, HeartbeatsOnlyOnTransport, ReleasedWhenClosed,
         TransportWhileActive
<1>3. (TransportWhileActive /\ StoppingIsKnown /\ CloseWaitsForAll)'
  BY DEF TransportWhileActive, StoppingIsKnown, CloseWaitsForAll
<1> QED
  BY <1>1, <1>2, <1>3

LEMMA DeactivateInv == Inv /\ Deactivate => Inv'
<1> SUFFICES ASSUME Inv, Deactivate PROVE Inv'
  OBVIOUS
<1> USE DEF Inv, Deactivate, Release, HeartbeatsAfterTeardown, NoTransport, Done
<1>0. transport \in Nat /\ stopping \subseteq Nat /\ teardowns \in Nat
  BY DEF TypeOK
<1>1. TypeOK'
  <2>1. (active \in BOOLEAN /\ failed \in BOOLEAN /\ heartbeats \in BOOLEAN)'
    BY Zenon DEF TypeOK
  <2>2. (/\ created \in Nat /\ transport \in 0..created
         /\ stopping \subseteq 1..created /\ restarts \subseteq 1..created)'
    BY DEF TypeOK
  <2>3. (deactivating \in 0..created /\ closeWaits \in 0..created)'
    BY DEF TypeOK
  <2>4. (/\ node \in {"open", "closing", "closed", "timed_out"}
         /\ deploys \in 0..MaxDeploys /\ teardowns \in 0..MaxTeardowns)'
    BY LifecycleAssumption DEF TypeOK
  <2> QED
    BY <2>1, <2>2, <2>3, <2>4 DEF TypeOK
<1>2. (NothingStartsAfterClose /\ HeartbeatsOnlyOnTransport /\ ReleasedWhenClosed)'
  BY DEF NothingStartsAfterClose, HeartbeatsOnlyOnTransport, ReleasedWhenClosed
<1>3. (TransportWhileActive /\ CloseWaitsForAll)'
  BY DEF TransportWhileActive, CloseWaitsForAll
<1>4. StoppingIsKnown'
  BY <1>0 DEF StoppingIsKnown
<1> QED
  BY <1>1, <1>2, <1>3, <1>4

LEMMA ReactivateInv ==
  ASSUME NEW startable \in BOOLEAN, Inv, Reactivate(startable)
  PROVE  Inv'
<1> USE DEF Inv, Reactivate, StartTransport, WaitsFor, NoTransport, Done
<1>0. created \in Nat /\ stopping \subseteq 1..created /\ deactivating \in 0..created
  BY DEF TypeOK
<1>1. TypeOK'
  <2>1. (active \in BOOLEAN /\ failed \in BOOLEAN /\ heartbeats \in BOOLEAN)'
    BY Zenon DEF TypeOK
  <2>2. (/\ created \in Nat /\ transport \in 0..created
         /\ stopping \subseteq 1..created /\ restarts \subseteq 1..created)'
    <3>1. CASE WaitsFor = Done
      <4>1. created' \in {created, created + 1} /\ transport' \in {0, created'}
        BY <3>1
      <4>2. restarts' = restarts /\ stopping' = stopping
        BY <3>1
      <4> QED
        BY <4>1, <4>2 DEF TypeOK
    <3>2. CASE WaitsFor # Done
      <4>1. WaitsFor \in stopping
        BY <3>2
      <4> QED
        BY <3>2, <4>1 DEF TypeOK
    <3> QED
      BY <3>1, <3>2
  <2>3. (deactivating \in 0..created /\ closeWaits \in 0..created)'
    BY DEF TypeOK
  <2>4. (/\ node \in {"open", "closing", "closed", "timed_out"}
         /\ deploys \in 0..MaxDeploys /\ teardowns \in 0..MaxTeardowns)'
    BY LifecycleAssumption DEF TypeOK
  <2> QED
    BY <2>1, <2>2, <2>3, <2>4 DEF TypeOK
<1>2. (NothingStartsAfterClose /\ HeartbeatsOnlyOnTransport /\ ReleasedWhenClosed)'
  BY DEF NothingStartsAfterClose, HeartbeatsOnlyOnTransport, ReleasedWhenClosed
<1>3. (TransportWhileActive /\ CloseWaitsForAll)'
  BY DEF TransportWhileActive, CloseWaitsForAll
<1>4. StoppingIsKnown'
  BY <1>0 DEF StoppingIsKnown, NothingStartsAfterClose, TransportWhileActive
<1> QED
  BY <1>1, <1>2, <1>3, <1>4

LEMMA ReconcileInv == Inv /\ Reconcile => Inv'
<1> SUFFICES ASSUME Inv, Reconcile PROVE Inv'
  OBVIOUS
<1> USE DEF Inv, Reconcile, RebuildsHeartbeats
<1>1. TypeOK'
  BY LifecycleAssumption DEF TypeOK
<1>2. (NothingStartsAfterClose /\ HeartbeatsOnlyOnTransport /\ ReleasedWhenClosed)'
  BY DEF NothingStartsAfterClose, HeartbeatsOnlyOnTransport, ReleasedWhenClosed
<1>3. (TransportWhileActive /\ StoppingIsKnown /\ CloseWaitsForAll)'
  BY DEF TransportWhileActive, StoppingIsKnown, CloseWaitsForAll
<1> QED
  BY <1>1, <1>2, <1>3

LEMMA StopSettlesInv ==
  ASSUME NEW t \in stopping, NEW startable \in BOOLEAN, Inv, StopSettles(t, startable)
  PROVE  Inv'
<1> USE DEF Inv, StopSettles, StartTransport, StartsNow, NoTransport, Done
<1>0. created \in Nat /\ stopping \subseteq 1..created
  BY DEF TypeOK
<1>1. TypeOK'
  <2>1. (active \in BOOLEAN /\ failed \in BOOLEAN /\ heartbeats \in BOOLEAN)'
    BY Zenon DEF TypeOK
  <2>2. (/\ created \in Nat /\ transport \in 0..created
         /\ stopping \subseteq 1..created /\ restarts \subseteq 1..created)'
    BY DEF TypeOK
  <2>3. (deactivating \in 0..created /\ closeWaits \in 0..created)'
    BY DEF TypeOK
  <2>4. (/\ node \in {"open", "closing", "closed", "timed_out"}
         /\ deploys \in 0..MaxDeploys /\ teardowns \in 0..MaxTeardowns)'
    BY LifecycleAssumption DEF TypeOK
  <2> QED
    BY <2>1, <2>2, <2>3, <2>4 DEF TypeOK
<1>2. (NothingStartsAfterClose /\ HeartbeatsOnlyOnTransport)'
  BY <1>0 DEF NothingStartsAfterClose, HeartbeatsOnlyOnTransport
<1>3. TransportWhileActive'
  BY DEF TransportWhileActive
<1>4. (ReleasedWhenClosed /\ CloseWaitsForAll)'
  BY DEF ReleasedWhenClosed, CloseWaitsForAll, NothingStartsAfterClose
<1>5. StoppingIsKnown'
  BY DEF StoppingIsKnown
<1> QED
  BY <1>1, <1>2, <1>3, <1>4, <1>5

LEMMA CloseInv == Inv /\ Close => Inv'
<1> SUFFICES ASSUME Inv, Close PROVE Inv'
  OBVIOUS
<1> USE DEF Inv, Close, Release, HeartbeatsAfterTeardown, CloseWaitsFor, NoTransport, Done
<1>0. created \in Nat /\ stopping \subseteq 1..created /\ transport \in 0..created
  BY DEF TypeOK
<1>1. TypeOK'
  <2>1. (active \in BOOLEAN /\ failed \in BOOLEAN /\ heartbeats \in BOOLEAN)'
    BY Zenon DEF TypeOK
  <2>2. (/\ created \in Nat /\ transport \in 0..created
         /\ stopping \subseteq 1..created /\ restarts \subseteq 1..created)'
    BY DEF TypeOK
  <2>3. (deactivating \in 0..created /\ closeWaits \in 0..created)'
    BY DEF TypeOK
  <2>4. (/\ node \in {"open", "closing", "closed", "timed_out"}
         /\ deploys \in 0..MaxDeploys /\ teardowns \in 0..MaxTeardowns)'
    BY LifecycleAssumption DEF TypeOK
  <2> QED
    BY <2>1, <2>2, <2>3, <2>4 DEF TypeOK
<1>2. (NothingStartsAfterClose /\ HeartbeatsOnlyOnTransport)'
  BY DEF NothingStartsAfterClose, HeartbeatsOnlyOnTransport
<1>3. (TransportWhileActive /\ StoppingIsKnown)'
  BY DEF TransportWhileActive, StoppingIsKnown
<1>4. (ReleasedWhenClosed /\ CloseWaitsForAll)'
  BY <1>0 DEF ReleasedWhenClosed, CloseWaitsForAll, StoppingIsKnown
<1> QED
  BY <1>1, <1>2, <1>3, <1>4

LEMMA CloseTimesOutInv == Inv /\ CloseTimesOut => Inv'
<1> SUFFICES ASSUME Inv, CloseTimesOut PROVE Inv'
  OBVIOUS
<1> USE DEF Inv, CloseTimesOut, GuardFires
<1>1. TypeOK'
  BY DEF TypeOK
<1>2. (NothingStartsAfterClose /\ HeartbeatsOnlyOnTransport /\ ReleasedWhenClosed)'
  BY DEF NothingStartsAfterClose, HeartbeatsOnlyOnTransport, ReleasedWhenClosed
<1>3. (TransportWhileActive /\ StoppingIsKnown /\ CloseWaitsForAll)'
  BY DEF TransportWhileActive, StoppingIsKnown, CloseWaitsForAll
<1> QED
  BY <1>1, <1>2, <1>3

LEMMA StepInv == Inv /\ [Next]_vars => Inv'
<1> SUFFICES ASSUME Inv, [Next]_vars PROVE Inv'
  OBVIOUS
<1>1. CASE TransportUp
  BY <1>1, TransportUpInv
<1>2. CASE Deactivate
  BY <1>2, DeactivateInv
<1>3. CASE \E startable \in BOOLEAN : Reactivate(startable)
  BY <1>3, ReactivateInv
<1>4. CASE Reconcile
  BY <1>4, ReconcileInv
<1>5. CASE \E t \in stopping, startable \in BOOLEAN : StopSettles(t, startable)
  BY <1>5, StopSettlesInv
<1>6. CASE Close
  BY <1>6, CloseInv
<1>7. CASE CloseTimesOut
  BY <1>7, CloseTimesOutInv
<1>8. CASE UNCHANGED vars
  BY <1>8 DEF vars, Inv, TypeOK, NothingStartsAfterClose, HeartbeatsOnlyOnTransport,
     ReleasedWhenClosed, TransportWhileActive, StoppingIsKnown, CloseWaitsForAll
<1> QED
  BY <1>1, <1>2, <1>3, <1>4, <1>5, <1>6, <1>7, <1>8 DEF Next

LEMMA InvHolds == Spec => []Inv
<1>1. Inv /\ [Next]_vars => Inv'
  BY StepInv
<1> QED
  BY InitInv, <1>1, PTL DEF Spec

-----------------------------------------------------------------------------
(* Theorems *)

\* The connection's fields keep their types, however many deploys there are.
THEOREM TypeCorrectness == Spec => []TypeOK
<1>1. Inv => TypeOK
  BY DEF Inv
<1> QED
  BY InvHolds, <1>1, PTL

\* No deploy, restart or settlement starts a transport on a node whose close
\* handler has run.
THEOREM ClosedStaysClosed == Spec => []NothingStartsAfterClose
<1>1. Inv => NothingStartsAfterClose
  BY DEF Inv
<1> QED
  BY InvHolds, <1>1, PTL

\* Heartbeats run only on a live transport of an active connection.
THEOREM HeartbeatsNeedTransport == Spec => []HeartbeatsOnlyOnTransport
<1>1. Inv => HeartbeatsOnlyOnTransport
  BY DEF Inv
<1> QED
  BY InvHolds, <1>1, PTL

\* A close handler that was not cut short answers when every port is free, in a
\* node that was deactivated once at most.
THEOREM ClosedIsReleased == Spec => []ReleasedWhenClosed
<1>1. Inv => ReleasedWhenClosed
  BY DEF Inv
<1> QED
  BY InvHolds, <1>1, PTL

\* Up to the second deactivation a transport starts only when no other one is
\* still releasing its port: the wait of reactivate() is sufficient.
THEOREM PortIsFree == Spec => PortFreeInOneTeardown
<1>1. ASSUME Inv, [Next]_vars, created' > created, teardowns <= 1
      PROVE  stopping' = {}
  <2>0. created \in Nat /\ stopping \subseteq 1..created /\ deactivating \in 0..created
    BY <1>1 DEF Inv, TypeOK
  <2>1. PICK startable \in BOOLEAN :
          Reactivate(startable) \/ \E t \in stopping : StopSettles(t, startable)
    BY <1>1, <2>0 DEF Next, vars, TransportUp, Deactivate, Reconcile, Close, CloseTimesOut
  <2>2. CASE Reactivate(startable)
    BY <1>1, <2>0, <2>2 DEF Reactivate, WaitsFor, Done, Inv, StoppingIsKnown
  <2>3. CASE \E t \in stopping : StopSettles(t, startable)
    BY <1>1, <2>0, <2>3 DEF StopSettles, StartsNow, Inv, StoppingIsKnown,
       NothingStartsAfterClose
  <2> QED
    BY <2>1, <2>2, <2>3
<1>2. Inv /\ [Next]_vars => [created' > created /\ teardowns <= 1 => stopping' = {}]_vars
  BY <1>1
<1> QED
  BY InvHolds, <1>2, PTL DEF Spec, PortFreeInOneTeardown

\* Every wait of a connection is for a stop() that is under way, for any number of
\* deploys and teardowns: the closing node's for the one it began or found, the
\* restored one's for the one it found.  With sockets that close, nothing hangs.
THEOREM NothingHangs == Spec => []WaitsAreReal
<1>1. Init => WaitsAreReal
  BY DEF Init, WaitsAreReal, NoTransport, Done
<1>2. ASSUME Inv, WaitsAreReal, [Next]_vars PROVE WaitsAreReal'
  <2> USE DEF WaitsAreReal, NoTransport, Done
  <2>0. created \in Nat /\ stopping \subseteq 1..created /\ transport \in 0..created
    BY <1>2 DEF Inv, TypeOK
  <2>1. CASE TransportUp \/ Reconcile \/ CloseTimesOut \/ UNCHANGED vars
    BY <1>2, <2>1 DEF TransportUp, Reconcile, CloseTimesOut, vars
  <2>2. CASE Deactivate
    BY <1>2, <2>2 DEF Deactivate, Release
  <2>3. ASSUME NEW startable \in BOOLEAN, Reactivate(startable) PROVE WaitsAreReal'
    <3>1. UNCHANGED <<stopping, node, closeWaits>>
      BY <2>3 DEF Reactivate
    <3>2. CASE WaitsFor = 0
      <4>1. restarts' = restarts /\ (failed' \/ transport' = created + 1)
        BY <2>3, <3>2, Zenon DEF Reactivate, StartTransport
      <4> QED BY <1>2, <2>0, <3>1, <4>1
    <3>3. CASE WaitsFor # 0
      <4>1. WaitsFor \in stopping /\ restarts' = restarts \cup {WaitsFor}
        BY <2>3, <3>3 DEF Reactivate, WaitsFor
      <4> HIDE DEF WaitsFor
      <4> QED BY <1>2, <3>1, <4>1
    <3> QED BY <3>2, <3>3
  <2>4. ASSUME NEW t \in stopping, NEW startable \in BOOLEAN, StopSettles(t, startable)
        PROVE  WaitsAreReal'
    BY <1>2, <2>0, <2>4 DEF StopSettles, StartTransport, StartsNow
  <2>5. CASE Close
    BY <1>2, <2>0, <2>5 DEF Close, Release, CloseWaitsFor
  <2> QED BY <1>2, <2>1, <2>2, <2>3, <2>4, <2>5 DEF Next
<1> QED
  BY InvHolds, <1>1, <1>2, PTL DEF Spec
=============================================================================
