------------------------------ MODULE Transport ------------------------------
(***************************************************************************)
(* One transport of a connection (lib/transport/): a UDP socket, a TCP     *)
(* server, a TCP client or a serial port, from its first start() to the    *)
(* end of stop().  A step is one event: a socket callback, the reconnect   *)
(* timer, the deadline of a write, or a call of the connection.            *)
(*                                                                         *)
(* Each start() makes a new handle.  os is the operating system's side of  *)
(* it; the transport sees only its own fields and the events it is sent.   *)
(***************************************************************************)
EXTENDS Integers, FiniteSets

CONSTANTS Sends,       \* sends that can be outstanding at the same time
          Clients,     \* connections a TCP server can have at the same time
          Vehicles,    \* UDP peers by system id: vehicles,
          Stations,    \* and ground stations (system ids from 250)
          Endpoints,   \* addresses UDP peers send from
          Remote,      \* the configured remote endpoint
          None,        \* no peer
          MaxHandles   \* bound: handles a transport opens

ASSUME TransportAssumption ==
  /\ MaxHandles \in Nat \ {0}
  /\ Vehicles \cap Stations = {}
  /\ None \notin Vehicles \cup Stations \cup Endpoints \cup {Remote}

VARIABLES kind,          \* what createTransport made
          reconnect,     \* the Reconnect option
          closing,       \* _closing
          current,       \* socket, server, client or port: a handle, or NoHandle
          bound,         \* _bound of the UDP transport
          timer,         \* _reconnectTimer is armed
          stopped,       \* the promise of stop(): "no", "pending" or "done"
          stopWaits,     \* the handle whose close that promise waits for
          peers,         \* peersBySysid
          learnedSysid,  \* _learnedPeerSysid
          learnedPeer,   \* learnedPeer: where to send without a known peer
          sockets,       \* sockets of the TCP server
          destroyed,     \* those of them destroy() was called for
          made,          \* handles made so far
          os,            \* state of each handle
          accepted,      \* the server handle a client came through, or NoHandle
          pending,       \* the writes of each send that have not settled
          delivered,     \* one write of the send has succeeded
          answer         \* what the promise of each send did

lifeVars == <<closing, current, bound, timer, stopped, stopWaits, made, os>>
peerVars == <<peers, learnedSysid, learnedPeer>>
clientVars == <<sockets, destroyed, accepted>>
sendVars == <<pending, delivered, answer>>
vars == <<kind, reconnect, lifeVars, peerVars, clientVars, sendVars>>

NoHandle == 0
Handles == 1..MaxHandles
Sysids == Vehicles \cup Stations

\* "udp_fixed" has a remote host and port configured.
Kinds == {"udp", "udp_fixed", "server", "client", "serial"}
IsUdp == kind \in {"udp", "udp_fixed"}

CurrentIs(states) == current # NoHandle /\ os[current] \in states

-----------------------------------------------------------------------------
(* start(), and the reconnect timer *)

\* Failed binds and listens are retried whatever the option says.
Retries == IsUdp \/ kind = "server" \/ reconnect

\* scheduleReconnect, when the kind of transport gets that far.
ScheduleReconnect == timer' = (timer \/ Retries)

\* start(): a fresh handle begins to open.
Start ==
  /\ made < MaxHandles
  /\ made' = made + 1
  /\ current' = made'
  /\ os' = [os EXCEPT ![made'] = "opening"]

\* The timer of scheduleReconnect.  When start() throws, it is armed again,
\* which leaves everything as it was.
TimerFires ==
  /\ timer
  /\ timer' = FALSE
  /\ Start
  /\ UNCHANGED <<closing, bound, stopped, stopWaits, peerVars, clientVars, sendVars>>

\* The callback of port.open() closes a port nobody waits for any more.
LateOpen == "closing"

\* 'listening', 'connect' or the callback of port.open().
Opens(h) ==
  /\ os[h] = "opening"
  /\ \/ h = current /\ os' = [os EXCEPT ![h] = "open"] /\ bound' = IsUdp
     \/ h # current /\ os' = [os EXCEPT ![h] = LateOpen] /\ UNCHANGED bound
  /\ UNCHANGED <<closing, current, timer, stopped, stopWaits, made,
                 peerVars, clientVars, sendVars>>

BoundAfterDeath == FALSE

\* Fault: a handle that failed is not closed.
DeadHandleLeaked == "open"

\* The operating system closed it, or the error handler does.
DeadHandle == "closed"

\* The handle in use fails to open, breaks, or is closed from the other side; a
\* serial port keeps its dead handle in place.  The clients of a TCP server stay.
Dies ==
  /\ CurrentIs({"opening", "open", "closing"})
  /\ os' = [os EXCEPT ![current] = DeadHandle]
  /\ current' = IF kind = "serial" THEN current ELSE NoHandle
  /\ bound' = BoundAfterDeath
  /\ ScheduleReconnect
  /\ UNCHANGED <<closing, stopped, stopWaits, made, peerVars, clientVars, sendVars>>

\* A serial port whose open() was under way at stop() fails to open.
LateOpenFails(h) ==
  /\ os[h] = "opening"
  /\ h # current
  /\ os' = [os EXCEPT ![h] = "closed"]
  /\ UNCHANGED <<closing, current, bound, timer, stopped, stopWaits, made,
                 peerVars, clientVars, sendVars>>

-----------------------------------------------------------------------------
(* stop() *)

\* The close stop() waits for: not that of a TCP client, and not that of a
\* serial port that is not open (yet).
StopAwaits ==
  IF IsUdp \/ kind = "server" \/ (kind = "serial" /\ CurrentIs({"open"}))
    THEN current ELSE NoHandle

\* Fault: the timer is left armed.
TimerAfterStopKept == timer

TimerAfterStop == FALSE

\* Fault: the clients of a server are forgotten, not destroyed.
DestroyedByStopNone == destroyed

DestroyedByStop == destroyed \cup sockets

Stop ==
  /\ stopped = "no"
  /\ closing' = TRUE
  /\ bound' = FALSE
  /\ timer' = TimerAfterStop
  /\ current' = NoHandle
  /\ os' = IF CurrentIs({"open", "closing"}) \/ (kind # "serial" /\ CurrentIs({"opening"}))
             THEN [os EXCEPT ![current] = "closing"] ELSE os
  /\ stopWaits' = StopAwaits
  /\ stopped' = IF StopAwaits = NoHandle THEN "done" ELSE "pending"
  /\ peers' = [s \in Sysids |-> None]
  /\ learnedSysid' = None
  /\ learnedPeer' = None
  /\ sockets' = {}
  /\ destroyed' = DestroyedByStop
  /\ UNCHANGED <<made, accepted, sendVars>>

\* The operating system has closed a handle; a server's close() also waits for
\* the connections that came through it.
Closes(h) ==
  /\ os[h] = "closing"
  /\ h # current
  /\ kind = "server" => \A c \in Clients : accepted[c] # h
  /\ os' = [os EXCEPT ![h] = "closed"]
  /\ stopped' = IF stopWaits = h THEN "done" ELSE stopped
  /\ UNCHANGED <<closing, current, bound, timer, stopWaits, made,
                 peerVars, clientVars, sendVars>>

-----------------------------------------------------------------------------
(* The clients of a TCP server *)

Accept(c) ==
  /\ kind = "server"
  /\ CurrentIs({"open"})
  /\ accepted[c] = NoHandle
  /\ accepted' = [accepted EXCEPT ![c] = current]
  /\ sockets' = sockets \cup {c}
  /\ UNCHANGED <<destroyed, lifeVars, peerVars, sendVars>>

\* 'close' of a client's socket: the client left, or it was destroyed, after an
\* error of its own too.  Its writes have been called back before.
ClientCloses(c) ==
  /\ accepted[c] # NoHandle
  /\ \A s \in Sends : c \notin pending[s]
  /\ accepted' = [accepted EXCEPT ![c] = NoHandle]
  /\ sockets' = sockets \ {c}
  /\ destroyed' = destroyed \ {c}
  /\ UNCHANGED <<lifeVars, peerVars, sendVars>>

-----------------------------------------------------------------------------
(* UDP peers *)

IsGcs(sysid) == sysid \in Stations

\* Fault: whoever spoke last.
ReplacesAlways(sysid) == TRUE

\* A ground station does not take the fallback from a vehicle.
Replaces(sysid) ==
  \/ learnedPeer = None
  \/ learnedSysid = sysid
  \/ ~(IsGcs(sysid) /\ ~IsGcs(learnedSysid))

\* confirmPeer: a packet that came from the endpoint was validated.
ConfirmPeer(sysid, endpoint) ==
  /\ IsUdp
  /\ ~closing
  /\ peers' = [peers EXCEPT ![sysid] = endpoint]
  /\ IF Replaces(sysid) THEN learnedSysid' = sysid /\ learnedPeer' = endpoint
                        ELSE UNCHANGED <<learnedSysid, learnedPeer>>
  /\ UNCHANGED <<lifeVars, clientVars, sendVars>>

-----------------------------------------------------------------------------
(* send() *)

Known(sysids) == {peers[s] : s \in sysids} \ {None}

\* _targets and the destinations of the streams.  A send is for every system, for
\* one of them, or for a group that shares a wire version.
Targets(addressed) ==
  CASE kind = "udp_fixed" -> {Remote}
    [] kind = "udp" /\ addressed.group -> Known(addressed.to)
    [] kind = "udp" /\ ~addressed.group ->
         IF Known(addressed.to) # {} THEN Known(addressed.to) ELSE {learnedPeer} \ {None}
    [] kind = "server" -> sockets
    [] kind \in {"client", "serial"} -> {current} \ {NoHandle}

ToAll == [to |-> Sysids, group |-> FALSE]
ToOne(sysid) == [to |-> {sysid}, group |-> FALSE]
ToGroup(sysids) == [to |-> sysids, group |-> TRUE]

\* Something a send can land on: the errors that mean "nobody is there yet" are
\* for transports that are up.
Ready == IF IsUdp THEN current # NoHandle /\ bound ELSE CurrentIs({"open"})

\* A TCP peer behind on its reading is destroyed.
Kick(laggards) ==
  /\ destroyed' = destroyed \cup (laggards \cap sockets)
  /\ os' = [h \in Handles |->
             IF kind = "client" /\ h \in laggards /\ os[h] = "open" THEN "closing" ELSE os[h]]

\* The peers whose backlog is over MAX_CLIENT_BACKLOG_BYTES.
MayLag(targets) == IF kind \in {"server", "client"} THEN SUBSET targets ELSE {{}}

\* Every destination is written to at once.
Send(s, addressed) ==
  LET targets == Targets(addressed)
  IN  /\ answer[s] # "pending"
      /\ delivered' = [delivered EXCEPT ![s] = FALSE]
      /\ \/ /\ ~Ready
            /\ answer' = [answer EXCEPT ![s] = "failed"]
            /\ UNCHANGED <<pending, destroyed, os>>
         \/ /\ Ready
            /\ \E laggards \in MayLag(targets \ destroyed) :
                 /\ Kick(laggards)
                 /\ pending' = [pending EXCEPT ![s] = (targets \ destroyed) \ laggards]
            /\ answer' = [answer EXCEPT ![s] = IF pending'[s] = {} THEN "failed" ELSE "pending"]
      /\ UNCHANGED <<closing, current, bound, timer, stopped, stopWaits, made,
                     peerVars, sockets, accepted>>

\* A send fails only if every write failed.
Verdict(s, written) == IF delivered[s] \/ written THEN "sent" ELSE "failed"

\* One write of a send settles; a late callback finds it settled already.
WriteSettles(s, target, written) ==
  /\ target \in pending[s]
  /\ pending' = [pending EXCEPT ![s] = @ \ {target}]
  /\ delivered' = [delivered EXCEPT ![s] = @ \/ written]
  /\ answer' = IF pending[s] = {target} THEN [answer EXCEPT ![s] = Verdict(s, written)]
                                        ELSE answer
  /\ UNCHANGED <<closing, current, bound, timer, stopped, stopWaits, made,
                 peerVars, sockets, accepted>>

\* The callback of the write.
WriteReturns(s, target, written) ==
  WriteSettles(s, target, written) /\ UNCHANGED <<os, destroyed>>

\* Fault: the deadline kicks the laggard and leaves the write to its callback.
DeadlineKicksOnly(s, target) ==
  /\ target \in pending[s]
  /\ target \notin destroyed
  /\ Kick({target})
  /\ UNCHANGED <<closing, current, bound, timer, stopped, stopWaits, made,
                 peerVars, sockets, accepted, sendVars>>

\* boundedWrite: the deadline, which a TCP peer does not survive.
Deadline(s, target) == WriteSettles(s, target, FALSE) /\ Kick({target})

-----------------------------------------------------------------------------
\* The connection has called start().
Init ==
  /\ kind \in Kinds
  /\ reconnect \in BOOLEAN
  /\ closing = FALSE
  /\ current = 1
  /\ made = 1
  /\ os = [h \in Handles |-> IF h = 1 THEN "opening" ELSE "unused"]
  /\ bound = FALSE
  /\ timer = FALSE
  /\ stopped = "no"
  /\ stopWaits = NoHandle
  /\ peers = [s \in Sysids |-> None]
  /\ learnedSysid = None
  /\ learnedPeer = None
  /\ sockets = {}
  /\ destroyed = {}
  /\ accepted = [c \in Clients |-> NoHandle]
  /\ pending = [s \in Sends |-> {}]
  /\ delivered = [s \in Sends |-> FALSE]
  /\ answer = [s \in Sends |-> "none"]

Next ==
  /\ UNCHANGED <<kind, reconnect>>
  /\ \/ TimerFires
     \/ \E h \in Handles : Opens(h) \/ LateOpenFails(h) \/ Closes(h)
     \/ Dies
     \/ Stop
     \/ \E c \in Clients : Accept(c) \/ ClientCloses(c)
     \/ \E sysid \in Sysids, endpoint \in Endpoints : ConfirmPeer(sysid, endpoint)
     \/ \E s \in Sends : \/ Send(s, ToAll)
                         \/ \E sysid \in Sysids : Send(s, ToOne(sysid))
                         \/ \E sysids \in SUBSET Sysids : Send(s, ToGroup(sysids))
     \/ \E s \in Sends : \E target \in pending[s] :
          Deadline(s, target) \/ \E written \in BOOLEAN : WriteReturns(s, target, written)

Spec == Init /\ [][Next]_vars

\* setTimeout: every write has its deadline.
DeadlinesPass ==
  \A s \in Sends :
    WF_vars((\E target \in pending[s] : Deadline(s, target)) /\ UNCHANGED <<kind, reconnect>>)

\* External: the operating system opens or refuses, and closes, what it was told
\* to; a destroyed socket is closed.
SystemAnswers ==
  /\ \A h \in Handles :
       WF_vars((Opens(h) \/ LateOpenFails(h) \/ Closes(h)) /\ UNCHANGED <<kind, reconnect>>)
  /\ \A c \in Clients :
       WF_vars(c \in destroyed /\ ClientCloses(c) /\ UNCHANGED <<kind, reconnect>>)

FairSpec == Spec /\ DeadlinesPass /\ SystemAnswers

-----------------------------------------------------------------------------
(* Properties *)

HandleStates == {"unused", "opening", "open", "closing", "closed"}

TypeOK ==
  /\ kind \in Kinds /\ {reconnect, closing, bound, timer} \subseteq BOOLEAN
  /\ current \in Handles \cup {NoHandle} /\ stopWaits \in Handles \cup {NoHandle}
  /\ made \in Handles
  /\ stopped \in {"no", "pending", "done"}
  /\ os \in [Handles -> HandleStates]
  /\ peers \in [Sysids -> Endpoints \cup {None}]
  /\ learnedSysid \in Sysids \cup {None} /\ learnedPeer \in Endpoints \cup {None}
  /\ sockets \subseteq Clients /\ destroyed \subseteq Clients
  /\ accepted \in [Clients -> Handles \cup {NoHandle}]
  /\ pending \in [Sends -> SUBSET (Clients \cup Endpoints \cup {Remote} \cup Handles)]
  /\ delivered \in [Sends -> BOOLEAN]
  /\ answer \in [Sends -> {"none", "pending", "sent", "failed"}]

\* A transport that is to recover is never dead for good: unless it was stopped,
\* its timer runs or its handle is alive or about to report its end ("instead
\* of staying permanently dead until a manual redeploy", UdpTransport.start).
StillTrying ==
  ~closing /\ (kind \in {"udp", "udp_fixed", "server"} \/ reconnect)
    => timer \/ CurrentIs({"opening", "open", "closing"})

\* There is never more than one link: no handle opens while another one of the
\* same transport may still carry traffic, or every frame would come twice.
OneLiveHandle ==
  \A h, i \in Handles :
    os[h] \in {"opening", "open"} /\ os[i] \in {"opening", "open", "closing"} => h = i

\* What ConnectionLifecycle takes for granted: when stop() has settled nothing of
\* the transport can be used, and nothing of it is left to close, except a TCP
\* client's socket and a serial port that had not opened yet.
StopReleases ==
  stopped = "done" =>
    \A h \in Handles :
      \/ os[h] \in {"unused", "closed"}
      \/ kind \in {"client", "serial"} /\ stopWaits = NoHandle /\ os[h] # "open"

\* Traffic is only handed to a handle that is up: a late write to one that is
\* not bound would be "a place a send can't land", or bind it elsewhere.
WritesOnlyWhenUp ==
  [][\A s \in Sends : pending'[s] \ pending[s] # {} => CurrentIs({"open"})]_vars

\* "a second GCS on the port would otherwise capture untargeted traffic"
\* (confirmPeer): once a vehicle is known, a send without a known peer goes to
\* a vehicle, at the endpoint it was last heard from.
FallbackIsVehicle ==
  /\ (\E v \in Vehicles : peers[v] # None) => learnedSysid \in Vehicles
  /\ learnedSysid # None => learnedPeer = peers[learnedSysid]

\* What a caller waits for is under way: a send for a write, and no write is left
\* of a send that settled; stop() for a handle the operating system is closing and,
\* of a server, for clients that were destroyed, those of an earlier, failed handle
\* among them, since close() waits for every connection.
WaitsAreOwed ==
  /\ \A s \in Sends : answer[s] = "pending" <=> pending[s] # {}
  /\ stopped = "pending" => stopWaits # NoHandle /\ os[stopWaits] = "closing"
  /\ closing => \A c \in Clients : accepted[c] # NoHandle => c \in destroyed

\* No peer holds up the outbound queue: every send settles.
SendsSettle == \A s \in Sends : answer[s] = "pending" ~> answer[s] # "pending"

\* stop() settles and everything ever opened is closed, as far as the operating
\* system does its part: also clients of a server that had failed before, and a
\* serial port that opens after stop().
StopEnds ==
  closing ~> stopped = "done" /\ \A h \in Handles : os[h] \in {"unused", "closed"}
=============================================================================
