--------------------------- MODULE TransportProofs ---------------------------
(* Theorems about Transport, for any sends, clients and peers and any number  *)
(* of reconnections.                                                          *)
EXTENDS Transport, TLAPS

Fixed == UNCHANGED <<kind, reconnect>>

-----------------------------------------------------------------------------
(* The inductive invariant of the handles *)

LifeType ==
  /\ kind \in Kinds
  /\ reconnect \in BOOLEAN /\ closing \in BOOLEAN /\ bound \in BOOLEAN /\ timer \in BOOLEAN
  /\ made \in Handles
  /\ current \in {made, NoHandle}
  /\ stopWaits \in Handles \cup {NoHandle}
  /\ stopped \in {"no", "pending", "done"}
  /\ os \in [Handles -> HandleStates]

Live(h) == os[h] \in {"opening", "open", "closing"}

\* Until stop(), only the current handle is alive, a dead one stays current on a
\* serial port only, and the timer waits for its end.
RunningHandles ==
  ~closing =>
    /\ stopped = "no"
    /\ current # NoHandle /\ kind # "serial" => Live(current)
    /\ \A h \in Handles : Live(h) => h = current
    /\ timer => \A h \in Handles : ~Live(h)

\* After stop(), one handle at most is not closed yet: a serial port still opening
\* that nobody waits for, or a handle that is closing.
StoppedHandles ==
  closing =>
    /\ stopped # "no" /\ ~timer /\ current = NoHandle
    /\ \A h, i \in Handles : Live(h) /\ Live(i) => h = i
    /\ \A h \in Handles : os[h] # "open"
    /\ \A h \in Handles : os[h] = "opening" => kind = "serial" /\ stopWaits = NoHandle
    /\ stopped = "pending" => stopWaits # NoHandle /\ os[stopWaits] = "closing"

FreshHandles == \A h \in Handles : h > made => os[h] = "unused"

BoundIsOpen == bound => IsUdp /\ CurrentIs({"open"})

Inv ==
  /\ LifeType
  /\ RunningHandles
  /\ StoppedHandles
  /\ FreshHandles
  /\ BoundIsOpen
  /\ StillTrying
  /\ StopReleases

LEMMA HandleFacts == /\ NoHandle \notin Handles
                     /\ Handles \subseteq Nat
                     /\ 1 \in Handles
BY TransportAssumption DEF NoHandle, Handles

LEMMA InitInv == Init => Inv
<1> SUFFICES ASSUME Init PROVE Inv
  OBVIOUS
<1> USE HandleFacts DEF Init
<1>1. LifeType
  BY DEF LifeType, HandleStates
<1>2. RunningHandles /\ StoppedHandles /\ FreshHandles
  BY DEF RunningHandles, StoppedHandles, FreshHandles, Live
<1>3. BoundIsOpen /\ StillTrying /\ StopReleases
  BY DEF BoundIsOpen, StillTrying, StopReleases, CurrentIs, NoHandle
<1> QED
  BY <1>1, <1>2, <1>3 DEF Inv

-----------------------------------------------------------------------------
(* Each action preserves it *)

\* Clients, peers and settled writes do not touch the handles.
LEMMA ElsewhereInv == Inv /\ Fixed /\ UNCHANGED lifeVars => Inv'
BY DEF Inv, Fixed, lifeVars, LifeType, RunningHandles, StoppedHandles, FreshHandles,
       BoundIsOpen, StillTrying, StopReleases, Live, CurrentIs, IsUdp

\* Kick closes an open handle of a TCP client, which is its current one.
LEMMA KickInv ==
  ASSUME NEW laggards, Inv, Fixed, Kick(laggards),
         UNCHANGED <<closing, current, bound, timer, stopped, stopWaits, made>>
  PROVE  Inv'
<1> USE HandleFacts DEF Inv, Fixed, Kick
<1>0. \A h \in Handles :
        \/ os'[h] = os[h]
        \/ kind = "client" /\ os[h] = "open" /\ os'[h] = "closing"
  BY DEF LifeType
<1>1. LifeType'
  BY <1>0 DEF LifeType, HandleStates
<1>2. RunningHandles' /\ FreshHandles'
  <2>1. \A h \in Handles : Live(h)' <=> Live(h)
    BY <1>0 DEF Live
  <2>2. RunningHandles'
    BY <2>1 DEF RunningHandles, LifeType
  <2>3. FreshHandles'
    BY <1>0 DEF FreshHandles
  <2> QED
    BY <2>2, <2>3
<1>3. StoppedHandles'
  BY <1>0 DEF StoppedHandles, Live, LifeType
<1>4. BoundIsOpen'
  BY <1>0 DEF BoundIsOpen, CurrentIs, IsUdp, LifeType
<1>5. StillTrying'
  BY <1>0 DEF StillTrying, CurrentIs, LifeType
<1>6. StopReleases'
  BY <1>0 DEF StopReleases, StoppedHandles, RunningHandles
<1> QED
  BY <1>1, <1>2, <1>3, <1>4, <1>5, <1>6

LEMMA TimerFiresInv == Inv /\ Fixed /\ TimerFires => Inv'
<1> SUFFICES ASSUME Inv, Fixed, TimerFires PROVE Inv'
  OBVIOUS
<1> USE HandleFacts DEF Inv, Fixed, TimerFires, Start
<1>0. ~closing /\ made' \in Handles /\ made \in Nat
  <2>1. ~closing /\ made \in Handles
    BY DEF StoppedHandles, LifeType
  <2> QED
    BY <2>1, TransportAssumption DEF Handles
<1>1. LifeType'
  BY <1>0 DEF LifeType, HandleStates
<1>2. \A h \in Handles : os'[h] = IF h = made' THEN "opening" ELSE os[h]
  BY <1>0 DEF LifeType
<1>3. RunningHandles' /\ StoppedHandles'
  BY <1>0, <1>2 DEF RunningHandles, StoppedHandles, Live
<1>4. FreshHandles'
  BY <1>0, <1>2 DEF FreshHandles, Handles
<1>5. BoundIsOpen' /\ StillTrying'
  <2>1. ~bound
    BY <1>0 DEF BoundIsOpen, CurrentIs, RunningHandles, Live, LifeType
  <2> QED
    BY <1>0, <1>2, <2>1 DEF BoundIsOpen, StillTrying, CurrentIs
<1>6. StopReleases'
  BY <1>0 DEF StopReleases, RunningHandles
<1> QED
  BY <1>1, <1>3, <1>4, <1>5, <1>6

LEMMA UdpOrNot == IsUdp \in BOOLEAN
BY DEF IsUdp

LEMMA OpensInv == ASSUME NEW h \in Handles, Inv, Fixed, Opens(h) PROVE Inv'
<1> USE HandleFacts DEF Inv, Fixed, Opens, LateOpen
<1>0. \A i \in Handles :
        os'[i] = IF i # h THEN os[i] ELSE IF h = current THEN "open" ELSE "closing"
  BY DEF LifeType
<1>1. LifeType'
  <2>0. IsUdp \in BOOLEAN
    BY UdpOrNot
  <2>1. bound' \in BOOLEAN
    BY <2>0 DEF LifeType
  <2>2. os' \in [Handles -> HandleStates]
    BY DEF LifeType, HandleStates
  <2> QED
    BY <2>1, <2>2 DEF LifeType
<1>2. RunningHandles'
  BY <1>0 DEF RunningHandles, Live
<1>3. StoppedHandles'
  BY <1>0 DEF StoppedHandles, RunningHandles, Live, LifeType
<1>4. FreshHandles'
  BY <1>0 DEF FreshHandles
<1>5. BoundIsOpen'
  BY <1>0 DEF BoundIsOpen, IsUdp, CurrentIs, LifeType
<1>6. StillTrying'
  BY <1>0 DEF StillTrying, CurrentIs, LifeType
<1>7. StopReleases'
  BY <1>0 DEF StopReleases, StoppedHandles, RunningHandles
<1> QED
  BY <1>1, <1>2, <1>3, <1>4, <1>5, <1>6, <1>7

LEMMA DiesInv == Inv /\ Fixed /\ Dies => Inv'
<1> SUFFICES ASSUME Inv, Fixed, Dies PROVE Inv'
  OBVIOUS
<1> USE HandleFacts DEF Inv, Fixed, Dies, DeadHandle, BoundAfterDeath, ScheduleReconnect
<1>0. /\ ~closing /\ current \in Handles
      /\ \A h \in Handles : os'[h] = IF h = current THEN "closed" ELSE os[h]
  BY DEF StoppedHandles, CurrentIs, LifeType
<1>1. LifeType'
  <2>1. timer' \in BOOLEAN
    BY Zenon
  <2> QED
    BY <1>0, <2>1 DEF LifeType, HandleStates
<1>2. RunningHandles' /\ StoppedHandles' /\ FreshHandles'
  <2>1. \A h \in Handles : ~Live(h)'
    BY <1>0 DEF RunningHandles, Live
  <2>2. RunningHandles'
    BY <1>0, <2>1 DEF RunningHandles
  <2>3. FreshHandles'
    BY <1>0 DEF FreshHandles, LifeType, CurrentIs
  <2> QED
    BY <1>0, <2>2, <2>3 DEF StoppedHandles
<1>3. BoundIsOpen' /\ StopReleases'
  BY <1>0 DEF BoundIsOpen, StopReleases, RunningHandles
<1>4. StillTrying'
  BY <1>0 DEF StillTrying, Retries, IsUdp
<1> QED
  BY <1>1, <1>2, <1>3, <1>4

LEMMA LateOpenFailsInv == ASSUME NEW h \in Handles, Inv, Fixed, LateOpenFails(h) PROVE Inv'
<1> USE HandleFacts DEF Inv, Fixed, LateOpenFails
<1>0. \A i \in Handles : os'[i] = IF i = h THEN "closed" ELSE os[i]
  BY DEF LifeType
<1>1. LifeType'
  BY DEF LifeType, HandleStates
<1>2. RunningHandles' /\ FreshHandles'
  BY <1>0 DEF RunningHandles, FreshHandles, Live
<1>3. StoppedHandles'
  BY <1>0 DEF StoppedHandles, Live, LifeType
<1>4. BoundIsOpen' /\ StillTrying'
  BY <1>0 DEF BoundIsOpen, StillTrying, IsUdp, CurrentIs, LifeType
<1>5. StopReleases'
  BY <1>0 DEF StopReleases
<1> QED
  BY <1>1, <1>2, <1>3, <1>4, <1>5

LEMMA StopInv == Inv /\ Fixed /\ Stop => Inv'
<1> SUFFICES ASSUME Inv, Fixed, Stop PROVE Inv'
  OBVIOUS
<1> USE HandleFacts DEF Inv, Fixed, Stop, TimerAfterStop, StopAwaits
<1>0. ~closing /\ current \in {made, NoHandle} /\ made \in Handles
  BY DEF StoppedHandles, LifeType
<1>1. \A h \in Handles :
        os'[h] = IF /\ h = current
                    /\ os[h] \in {"open", "closing"} \/ (kind # "serial" /\ os[h] = "opening")
                   THEN "closing" ELSE os[h]
  BY <1>0 DEF CurrentIs, LifeType
<1>2. LifeType'
  BY <1>0, <1>1 DEF LifeType, HandleStates
<1>3. RunningHandles' /\ FreshHandles'
  BY <1>0, <1>1 DEF RunningHandles, FreshHandles
<1>4. StoppedHandles'
  <2>1. stopped' # "no" /\ ~timer' /\ current' = NoHandle
    BY DEF LifeType
  <2>2. \A h, i \in Handles : Live(h)' /\ Live(i)' => h = i
    BY <1>0, <1>1 DEF RunningHandles, Live
  <2>3. \A h \in Handles : os'[h] # "open"
    BY <1>0, <1>1 DEF RunningHandles, Live
  <2>4. \A h \in Handles : os'[h] = "opening" => kind' = "serial" /\ stopWaits' = NoHandle
    BY <1>0, <1>1 DEF RunningHandles, Live, CurrentIs, IsUdp
  <2>5. stopped' = "pending" => stopWaits' # NoHandle /\ os'[stopWaits'] = "closing"
    BY <1>0, <1>1 DEF RunningHandles, Live, CurrentIs, IsUdp
  <2> QED
    BY <2>1, <2>2, <2>3, <2>4, <2>5 DEF StoppedHandles
<1>5. BoundIsOpen' /\ StillTrying'
  BY DEF BoundIsOpen, StillTrying
<1>6. StopReleases'
  BY <1>0, <1>1 DEF StopReleases, RunningHandles, Live, CurrentIs, IsUdp, LifeType, Kinds,
     HandleStates
<1> QED
  BY <1>2, <1>3, <1>4, <1>5, <1>6

LEMMA ClosesInv == ASSUME NEW h \in Handles, Inv, Fixed, Closes(h) PROVE Inv'
<1> USE HandleFacts DEF Inv, Fixed, Closes
<1>0. /\ \A i \in Handles : os'[i] = IF i = h THEN "closed" ELSE os[i]
      /\ closing
  BY DEF LifeType, RunningHandles, Live
<1>1. LifeType'
  BY DEF LifeType, HandleStates
<1>2. RunningHandles' /\ FreshHandles'
  BY <1>0 DEF RunningHandles, FreshHandles, Live
<1>3. StoppedHandles'
  BY <1>0 DEF StoppedHandles, Live, LifeType
<1>4. BoundIsOpen' /\ StillTrying'
  BY <1>0 DEF BoundIsOpen, StillTrying, IsUdp, CurrentIs, StoppedHandles
<1>5. StopReleases'
  BY <1>0 DEF StopReleases, StoppedHandles, Live, LifeType, HandleStates
<1> QED
  BY <1>1, <1>2, <1>3, <1>4, <1>5

LEMMA SendInv == ASSUME NEW s \in Sends, NEW addressed, Inv, Fixed, Send(s, addressed)
                 PROVE  Inv'
<1>1. CASE UNCHANGED os
  BY <1>1, ElsewhereInv DEF Send, lifeVars
<1>2. CASE \E laggards : Kick(laggards)
  BY <1>2, KickInv DEF Send
<1> QED
  BY <1>1, <1>2 DEF Send

LEMMA WriteInv ==
  ASSUME NEW s \in Sends, NEW target, Inv, Fixed,
         Deadline(s, target) \/ \E written \in BOOLEAN : WriteReturns(s, target, written)
  PROVE  Inv'
<1>1. CASE Deadline(s, target)
  BY <1>1, KickInv DEF Deadline, WriteSettles
<1>2. CASE \E written \in BOOLEAN : WriteReturns(s, target, written)
  BY <1>2, ElsewhereInv DEF WriteReturns, WriteSettles, lifeVars
<1> QED
  BY <1>1, <1>2

LEMMA StepInv == Inv /\ [Next]_vars => Inv'
<1> SUFFICES ASSUME Inv, [Next]_vars PROVE Inv'
  OBVIOUS
<1>0. Fixed
  BY DEF Next, vars, Fixed
<1>1. CASE TimerFires
  BY <1>0, <1>1, TimerFiresInv
<1>2. CASE \E h \in Handles : Opens(h) \/ LateOpenFails(h) \/ Closes(h)
  BY <1>0, <1>2, OpensInv, LateOpenFailsInv, ClosesInv
<1>3. CASE Dies
  BY <1>0, <1>3, DiesInv
<1>4. CASE Stop
  BY <1>0, <1>4, StopInv
<1>5. CASE \E c \in Clients : Accept(c) \/ ClientCloses(c)
  BY <1>0, <1>5, ElsewhereInv DEF Accept, ClientCloses
<1>6. CASE \E sysid \in Sysids, endpoint \in Endpoints : ConfirmPeer(sysid, endpoint)
  BY <1>0, <1>6, ElsewhereInv DEF ConfirmPeer
<1>7. CASE \E s \in Sends : \/ Send(s, ToAll)
                            \/ \E sysid \in Sysids : Send(s, ToOne(sysid))
                            \/ \E sysids \in SUBSET Sysids : Send(s, ToGroup(sysids))
  BY <1>0, <1>7, SendInv
<1>8. CASE \E s \in Sends : \E target \in pending[s] :
             Deadline(s, target) \/ \E written \in BOOLEAN : WriteReturns(s, target, written)
  BY <1>0, <1>8, WriteInv
<1>9. CASE UNCHANGED vars
  BY <1>0, <1>9, ElsewhereInv DEF vars, lifeVars
<1> QED
  BY <1>1, <1>2, <1>3, <1>4, <1>5, <1>6, <1>7, <1>8, <1>9 DEF Next

LEMMA InvHolds == Spec => []Inv
BY InitInv, StepInv, PTL DEF Spec

-----------------------------------------------------------------------------
(* Theorems *)

\* A transport that is to recover has its timer armed or a live handle, unless it
\* was stopped: no failure leaves it dead until the next deploy.
THEOREM KeepsTrying == Spec => []StillTrying
<1>1. Inv => StillTrying
  BY DEF Inv
<1> QED
  BY InvHolds, <1>1, PTL

\* No handle opens while another one may still carry traffic.
THEOREM SingleLink == Spec => []OneLiveHandle
<1>1. Inv => OneLiveHandle
  BY DEF Inv, OneLiveHandle, RunningHandles, StoppedHandles, Live, LifeType
<1> QED
  BY InvHolds, <1>1, PTL

\* When stop() has settled nothing of a UDP transport or TCP server is left.
THEOREM Released == Spec => []StopReleases
<1>1. Inv => StopReleases
  BY DEF Inv
<1> QED
  BY InvHolds, <1>1, PTL


-----------------------------------------------------------------------------
(* The UDP peers *)

PeerType ==
  /\ peers \in [Sysids -> Endpoints \cup {None}]
  /\ learnedSysid \in Sysids \cup {None}
  /\ learnedPeer \in Endpoints \cup {None}
  /\ learnedPeer = None <=> learnedSysid = None

PeerInv == PeerType /\ FallbackIsVehicle

LEMMA InitPeerInv == Init => PeerInv
BY TransportAssumption DEF Init, PeerInv, PeerType, FallbackIsVehicle, Sysids

LEMMA ConfirmPeerInv ==
  ASSUME NEW sysid \in Sysids, NEW endpoint \in Endpoints, PeerInv, ConfirmPeer(sysid, endpoint)
  PROVE  PeerInv'
<1> USE TransportAssumption DEF PeerInv, PeerType, ConfirmPeer, Replaces, IsGcs, Sysids
<1>1. \A s \in Sysids : peers'[s] = IF s = sysid THEN endpoint ELSE peers[s]
  OBVIOUS
<1>2. PeerType'
  OBVIOUS
<1>3. CASE Replaces(sysid)
  BY <1>1, <1>2, <1>3 DEF FallbackIsVehicle
<1>4. CASE ~Replaces(sysid)
  BY <1>1, <1>2, <1>4 DEF FallbackIsVehicle
<1> QED
  BY <1>3, <1>4

LEMMA StopPeerInv == PeerInv /\ Stop => PeerInv'
BY TransportAssumption DEF PeerInv, PeerType, Stop, FallbackIsVehicle, Sysids

LEMMA ElsewherePeerInv == PeerInv /\ UNCHANGED peerVars => PeerInv'
BY DEF PeerInv, PeerType, FallbackIsVehicle, peerVars

LEMMA StepPeerInv == PeerInv /\ [Next]_vars => PeerInv'
<1> SUFFICES ASSUME PeerInv, [Next]_vars PROVE PeerInv'
  OBVIOUS
<1>1. CASE Stop
  BY <1>1, StopPeerInv
<1>2. CASE \E sysid \in Sysids, endpoint \in Endpoints : ConfirmPeer(sysid, endpoint)
  BY <1>2, ConfirmPeerInv
<1>3. CASE UNCHANGED peerVars
  BY <1>3, ElsewherePeerInv
<1> QED
  BY <1>1, <1>2, <1>3 DEF Next, vars, peerVars, TimerFires, Opens, LateOpenFails, Closes,
     Dies, Accept, ClientCloses, Send, Deadline, WriteReturns, WriteSettles

\* Once a vehicle is known the fallback is a vehicle, at its latest endpoint: a
\* ground station on the port cannot capture untargeted traffic.
THEOREM VehicleKeepsFallback == Spec => []FallbackIsVehicle
<1>1. PeerInv => FallbackIsVehicle
  BY DEF PeerInv
<1> QED
  BY InitPeerInv, StepPeerInv, <1>1, PTL DEF Spec

-----------------------------------------------------------------------------
(* Clients and sends *)

Destinations == Clients \cup Endpoints \cup {Remote} \cup Handles

DataType ==
  /\ sockets \subseteq Clients /\ destroyed \subseteq Clients
  /\ accepted \in [Clients -> Handles \cup {NoHandle}]
  /\ pending \in [Sends -> SUBSET Destinations]
  /\ delivered \in [Sends -> BOOLEAN]
  /\ answer \in [Sends -> {"none", "pending", "sent", "failed"}]

\* Whomever a send is for, it goes to clients, endpoints or the current handle.
LEMMA TargetsAreDestinations ==
  ASSUME Inv, PeerInv, DataType, NEW to \in SUBSET Sysids, NEW group \in BOOLEAN
  PROVE  Targets([to |-> to, group |-> group]) \subseteq Destinations
<1> DEFINE addressed == [to |-> to, group |-> group]
<1>1. Known(addressed.to) \subseteq Endpoints /\ {learnedPeer} \ {None} \subseteq Endpoints
  BY DEF Known, PeerInv, PeerType
<1>2. {current} \ {NoHandle} \subseteq Handles
  BY DEF Inv, LifeType
<1>3. CASE kind = "udp_fixed"
  BY <1>3 DEF Targets, Destinations
<1>4. CASE kind = "udp" /\ group
  BY <1>1, <1>4 DEF Targets, Destinations
<1>5. CASE kind = "udp" /\ ~group
  BY <1>1, <1>5 DEF Targets, Destinations
<1>6. CASE kind = "server"
  BY <1>6 DEF Targets, Destinations, DataType
<1>7. CASE kind \in {"client", "serial"}
  BY <1>2, <1>7 DEF Targets, Destinations
<1> QED
  BY <1>3, <1>4, <1>5, <1>6, <1>7 DEF Inv, LifeType, Kinds

LEMMA SendDataType ==
  ASSUME Inv, PeerInv, DataType, NEW s \in Sends,
         NEW to \in SUBSET Sysids, NEW group \in BOOLEAN,
         Send(s, [to |-> to, group |-> group])
  PROVE  DataType'
<1> DEFINE targets == Targets([to |-> to, group |-> group])
<1>1. targets \subseteq Destinations
  BY TargetsAreDestinations
<1>2. (sockets \subseteq Clients /\ destroyed \subseteq Clients)'
  BY DEF DataType, Send, Kick
<1>3. pending' \in [Sends -> SUBSET Destinations]
  BY <1>1 DEF DataType, Send
<1>4. (/\ accepted \in [Clients -> Handles \cup {NoHandle}]
       /\ delivered \in [Sends -> BOOLEAN]
       /\ answer \in [Sends -> {"none", "pending", "sent", "failed"}])'
  BY DEF DataType, Send
<1> QED
  BY <1>2, <1>3, <1>4 DEF DataType

LEMMA WriteDataType ==
  ASSUME DataType, NEW s \in Sends, NEW target, NEW written \in BOOLEAN,
         WriteSettles(s, target, written),
         (UNCHANGED destroyed) \/ Kick({target})
  PROVE  DataType'
<1>1. (sockets \subseteq Clients /\ destroyed \subseteq Clients)'
  BY DEF DataType, WriteSettles, Kick
<1>2. pending' \in [Sends -> SUBSET Destinations]
  BY DEF DataType, WriteSettles
<1>3. delivered' \in [Sends -> BOOLEAN]
  <2>1. delivered[s] \/ written \in BOOLEAN
    BY DEF DataType
  <2> QED
    BY <2>1 DEF DataType, WriteSettles
<1>4. (/\ accepted \in [Clients -> Handles \cup {NoHandle}]
       /\ answer \in [Sends -> {"none", "pending", "sent", "failed"}])'
  BY DEF DataType, WriteSettles, Verdict
<1> QED
  BY <1>1, <1>2, <1>3, <1>4 DEF DataType

LEMMA StepDataType == Inv /\ PeerInv /\ DataType /\ [Next]_vars => DataType'
<1> SUFFICES ASSUME Inv, PeerInv, DataType, [Next]_vars PROVE DataType'
  OBVIOUS
<1>1. CASE Stop
  BY <1>1 DEF DataType, Stop, DestroyedByStop, sendVars
<1>2. CASE \E c \in Clients : Accept(c) \/ ClientCloses(c)
  BY <1>2 DEF DataType, Accept, ClientCloses, sendVars, Inv, LifeType
<1>3. CASE \E s \in Sends : \/ Send(s, ToAll)
                            \/ \E sysid \in Sysids : Send(s, ToOne(sysid))
                            \/ \E sysids \in SUBSET Sysids : Send(s, ToGroup(sysids))
  BY <1>3, SendDataType DEF ToAll, ToOne, ToGroup
<1>4. CASE \E s \in Sends : \E target \in pending[s] :
             Deadline(s, target) \/ \E written \in BOOLEAN : WriteReturns(s, target, written)
  <2>0. PICK s \in Sends : \E target \in pending[s] :
          Deadline(s, target) \/ \E written \in BOOLEAN : WriteReturns(s, target, written)
    BY <1>4
  <2>1. PICK target \in pending[s] :
          Deadline(s, target) \/ \E written \in BOOLEAN : WriteReturns(s, target, written)
    BY <2>0
  <2>2. CASE Deadline(s, target)
    BY <2>2, WriteDataType DEF Deadline
  <2>3. CASE \E written \in BOOLEAN : WriteReturns(s, target, written)
    <3>1. PICK written \in BOOLEAN : WriteReturns(s, target, written)
      BY <2>3
    <3> QED
      BY <3>1, WriteDataType DEF WriteReturns, clientVars
  <2> QED
    BY <2>1, <2>2, <2>3
<1>5. CASE UNCHANGED <<clientVars, sendVars>>
  BY <1>5 DEF DataType, clientVars, sendVars
<1> QED
  BY <1>1, <1>2, <1>3, <1>4, <1>5 DEF Next, vars, TimerFires, Opens, LateOpenFails, Closes,
     Dies, ConfirmPeer

LEMMA InitDataType == Init => DataType
BY DEF Init, DataType

LEMMA AllHold == Spec => [](Inv /\ PeerInv /\ DataType)
<1>1. Init => Inv /\ PeerInv /\ DataType
  BY InitInv, InitPeerInv, InitDataType
<1>2. Inv /\ PeerInv /\ DataType /\ [Next]_vars => (Inv /\ PeerInv /\ DataType)'
  BY StepInv, StepPeerInv, StepDataType
<1> QED
  BY <1>1, <1>2, PTL DEF Spec

\* The fields of a transport keep their types.
THEOREM TypeCorrectness == Spec => []TypeOK
<1>1. Inv /\ PeerInv /\ DataType => TypeOK
  <2> SUFFICES ASSUME Inv, PeerInv, DataType PROVE TypeOK
    OBVIOUS
  <2>1. {reconnect, closing, bound, timer} \subseteq BOOLEAN
    BY DEF Inv, LifeType
  <2> QED
    BY <2>1 DEF Inv, LifeType, PeerInv, PeerType, DataType, Destinations, TypeOK
<1> QED
  BY AllHold, <1>1, PTL

\* Writes begin only while the current handle is open, so never on a UDP socket
\* that has not been bound yet.
THEOREM WritesNeedOpenHandle == Spec => WritesOnlyWhenUp
<1>1. ASSUME Inv, DataType, [Next]_vars, NEW s \in Sends, pending'[s] \ pending[s] # {}
      PROVE  CurrentIs({"open"})
  <2>1. CASE \E t \in Sends, addressed \in [to : SUBSET Sysids, group : BOOLEAN] :
               Send(t, addressed)
    <3>1. PICK t \in Sends, addressed \in [to : SUBSET Sysids, group : BOOLEAN] :
               Send(t, addressed)
      BY <2>1
    <3>2. Ready
      BY <1>1, <3>1 DEF Send, DataType
    <3> QED
      BY <1>1, <3>2 DEF Ready, Inv, BoundIsOpen
  <2>2. CASE \E t \in Sends : \E target \in pending[t], written \in BOOLEAN :
               WriteSettles(t, target, written)
    BY <1>1, <2>2 DEF WriteSettles, DataType
  <2>3. CASE UNCHANGED pending
    BY <1>1, <2>3
  <2>4. ASSUME NEW t \in Sends,
               \/ Send(t, ToAll)
               \/ \E sysid \in Sysids : Send(t, ToOne(sysid))
               \/ \E sysids \in SUBSET Sysids : Send(t, ToGroup(sysids))
        PROVE  \E addressed \in [to : SUBSET Sysids, group : BOOLEAN] : Send(t, addressed)
    <3>1. ToAll \in [to : SUBSET Sysids, group : BOOLEAN]
      BY DEF ToAll
    <3>2. \A sysid \in Sysids : ToOne(sysid) \in [to : SUBSET Sysids, group : BOOLEAN]
      BY DEF ToOne
    <3>3. \A sysids \in SUBSET Sysids : ToGroup(sysids) \in [to : SUBSET Sysids, group : BOOLEAN]
      BY DEF ToGroup
    <3> QED
      BY <2>4, <3>1, <3>2, <3>3
  <2> QED
    BY <1>1, <2>1, <2>2, <2>3, <2>4 DEF Next, vars, sendVars, TimerFires, Opens,
       LateOpenFails, Closes, Dies, Stop, Accept, ClientCloses, ConfirmPeer, Deadline,
       WriteReturns
<1>2. Inv /\ DataType /\ [Next]_vars =>
        [\A s \in Sends : pending'[s] \ pending[s] # {} => CurrentIs({"open"})]_vars
  BY <1>1
<1> QED
  BY AllHold, <1>2, PTL DEF Spec, WritesOnlyWhenUp

-----------------------------------------------------------------------------
(* What a caller waits for *)

SendsHaveWrites == \A s \in Sends : answer[s] = "pending" <=> pending[s] # {}

\* Until stop() the server knows the socket of every connection; stop() destroys
\* those it knows, and none comes after it.
ClientsAreHeld ==
  \A c \in Clients : accepted[c] # NoHandle => c \in (IF closing THEN destroyed ELSE sockets)

LEMMA SendHasWrites ==
  ASSUME DataType, SendsHaveWrites, NEW s \in Sends, NEW addressed, Send(s, addressed)
  PROVE  SendsHaveWrites'
<1>1. CASE ~Ready
  BY <1>1 DEF Send, DataType, SendsHaveWrites
<1>2. CASE Ready
  <2>1. /\ pending' = [pending EXCEPT ![s] = pending'[s]]
        /\ answer' = [answer EXCEPT ![s] = IF pending'[s] = {} THEN "failed" ELSE "pending"]
    BY <1>2 DEF Send, DataType
  <2> QED BY <2>1 DEF DataType, SendsHaveWrites
<1> QED BY <1>1, <1>2

LEMMA WriteHasWrites ==
  ASSUME DataType, SendsHaveWrites, NEW s \in Sends, NEW target, NEW written \in BOOLEAN,
         WriteSettles(s, target, written)
  PROVE  SendsHaveWrites'
<1>1. CASE pending[s] = {target}
  BY <1>1 DEF WriteSettles, Verdict, DataType, SendsHaveWrites
<1>2. CASE pending[s] # {target}
  <2>1. pending[s] \ {target} # {}
    BY <1>2 DEF WriteSettles
  <2> QED BY <1>2, <2>1 DEF WriteSettles, DataType, SendsHaveWrites
<1> QED BY <1>1, <1>2

\* A kick destroys more clients and forgets none.
LEMMA KickHoldsClients ==
  ASSUME ClientsAreHeld, NEW laggards, Kick(laggards), UNCHANGED <<closing, sockets, accepted>>
  PROVE  ClientsAreHeld'
BY DEF ClientsAreHeld, Kick

LEMMA SendHoldsClients ==
  ASSUME ClientsAreHeld, NEW s, NEW addressed, Send(s, addressed)
  PROVE  ClientsAreHeld'
<1>1. CASE UNCHANGED destroyed
  BY <1>1 DEF Send, ClientsAreHeld
<1>2. CASE \E laggards : Kick(laggards)
  BY <1>2, KickHoldsClients DEF Send
<1> QED BY <1>1, <1>2 DEF Send

LEMMA StepWaits ==
  ASSUME Inv, DataType, SendsHaveWrites, ClientsAreHeld, [Next]_vars
  PROVE  SendsHaveWrites' /\ ClientsAreHeld'
<1>1. CASE Stop
  BY <1>1 DEF Stop, DestroyedByStop, sendVars, SendsHaveWrites, ClientsAreHeld, Inv,
     StoppedHandles
<1>2. CASE \E c \in Clients : Accept(c) \/ ClientCloses(c)
  <2>1. PICK c \in Clients : Accept(c) \/ ClientCloses(c)
    BY <1>2
  <2>2. UNCHANGED <<lifeVars, sendVars>>
    BY <2>1 DEF Accept, ClientCloses
  <2>3. SendsHaveWrites'
    BY <2>2 DEF SendsHaveWrites, sendVars
  <2>4. CASE Accept(c)
    <3>1. ~closing
      BY <2>4 DEF Accept, CurrentIs, Inv, StoppedHandles
    <3> QED BY <2>2, <2>3, <2>4, <3>1 DEF Accept, ClientsAreHeld, lifeVars, DataType
  <2>5. CASE ClientCloses(c)
    BY <2>2, <2>3, <2>5 DEF ClientCloses, ClientsAreHeld, lifeVars, DataType
  <2> QED BY <2>1, <2>4, <2>5
<1>3. CASE \E s \in Sends : \E addressed : Send(s, addressed)
  BY <1>3, SendHasWrites, SendHoldsClients
<1>4. CASE \E s \in Sends : \E target \in pending[s], written \in BOOLEAN :
             WriteReturns(s, target, written)
  <2>1. PICK s \in Sends : \E target \in pending[s], written \in BOOLEAN :
               WriteReturns(s, target, written)
    BY <1>4
  <2>2. PICK target \in pending[s], written \in BOOLEAN : WriteReturns(s, target, written)
    BY <2>1
  <2>3. SendsHaveWrites'
    BY <2>2, WriteHasWrites, Zenon DEF WriteReturns
  <2>4. UNCHANGED <<closing, destroyed, sockets, accepted>>
    BY <2>2 DEF WriteReturns, WriteSettles
  <2> QED BY <2>3, <2>4 DEF ClientsAreHeld
<1>5. CASE \E s \in Sends : \E target \in pending[s] : Deadline(s, target)
  BY <1>5, WriteHasWrites, KickHoldsClients DEF Deadline, WriteSettles
<1>6. CASE UNCHANGED <<closing, clientVars, sendVars>>
  BY <1>6 DEF SendsHaveWrites, ClientsAreHeld, clientVars, sendVars
<1> QED
  BY <1>1, <1>2, <1>3, <1>4, <1>5, <1>6 DEF Next, vars, lifeVars, TimerFires, Opens,
     LateOpenFails, Closes, Dies, ConfirmPeer

\* For any sends and clients: a send that is unanswered has a write under way, and
\* stop() waits for a handle that is closing, with no client left that it has not
\* destroyed.  What is left to hope for is the deadline and the operating system.
THEOREM WaitsAreForSomething == Spec => []WaitsAreOwed
<1>1. Init => SendsHaveWrites /\ ClientsAreHeld
  BY DEF Init, SendsHaveWrites, ClientsAreHeld
<1>2. Inv /\ SendsHaveWrites /\ ClientsAreHeld => WaitsAreOwed
  BY DEF Inv, StoppedHandles, RunningHandles, SendsHaveWrites, ClientsAreHeld, WaitsAreOwed
<1> QED
  BY AllHold, <1>1, <1>2, StepWaits, PTL DEF Spec
=============================================================================
