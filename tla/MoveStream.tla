----------------------------- MODULE MoveStream -----------------------------
(***************************************************************************)
(* The setpoint stream of a move node (nodes/mavlink-ai-move.js): a timer  *)
(* resends the latest setpoint until the stream is stopped, its time to    *)
(* live runs out, a configuration node it depends on is replaced or the    *)
(* node closes.  Sends settle late, perhaps after the stream that issued   *)
(* them has been stopped and started again; a generation tells them apart. *)
(***************************************************************************)
EXTENDS Naturals, FiniteSets

CONSTANTS MaxInputs,   \* bound: messages the flow sends
          MaxDeploys   \* bound: deploys that replace a configuration node

MaxGen == MaxInputs + MaxDeploys + 2  \* every stop ends a generation

Generations == 0..MaxGen

VARIABLES delivery,  \* build, send or stream
          ttl,       \* maxStreamSeconds > 0: the stream has a deadline
          connected, \* node.connection
          streaming, \* _streamTimer and _streamState
          expiry,    \* _streamExpiryTimer is armed
          errored,   \* _streamErrored: this streak of failures is reported
          sending,   \* _streamSending
          gen,       \* _streamGen
          pending,   \* the streamed sends of each generation that have not settled
          shots,     \* sends of Send delivery that have not settled
          closed,
          inputs, deploys,
          emitted    \* what the turn put out

streamVars == <<streaming, expiry, errored, sending, gen>>
vars == <<delivery, ttl, connected, streamVars, pending, shots, closed, inputs, deploys, emitted>>

Emissions == {"nothing", "rejected", "message", "sent", "expired", "error"}

-----------------------------------------------------------------------------
\* stopStream, whatever the stream was doing.
StopStream ==
  /\ streaming' = FALSE
  /\ expiry' = FALSE
  /\ errored' = FALSE
  /\ sending' = FALSE
  /\ gen' = gen + 1

\* streamTick: one send at a time.
Issues(conn, busy) == conn /\ ~busy

IssueIf(sends) ==
  /\ sending' = (sending \/ sends)
  /\ pending' = IF sends THEN [pending EXCEPT ![gen] = @ + 1] ELSE pending

\* Fault: an input that refreshes a stream clears the old deadline only.
ArmsFirst == ttl /\ ~streaming

\* armStreamExpiry: from now, at the start and at every refresh.
Arms == ttl

-----------------------------------------------------------------------------
(* Input *)

Accepts ==
  /\ ~closed /\ inputs < MaxInputs
  /\ inputs' = inputs + 1
  /\ UNCHANGED <<delivery, ttl, connected, closed, deploys>>

\* stream: false stops the stream and sends nothing.
InputStops ==
  /\ Accepts /\ delivery = "stream"
  /\ StopStream
  /\ emitted' = "nothing"
  /\ UNCHANGED <<pending, shots>>

\* No profile, a bad setpoint, or nothing to send on: the stream goes on.
InputRejected ==
  /\ Accepts
  /\ emitted' = "rejected"
  /\ UNCHANGED <<streamVars, pending, shots>>

\* A setpoint arms or refreshes the stream; only the start sends at once.
InputStreams ==
  /\ Accepts /\ delivery = "stream" /\ connected
  /\ streaming' = TRUE
  /\ expiry' = Arms
  /\ IssueIf(~streaming /\ Issues(connected, sending))
  /\ emitted' = "nothing"
  /\ UNCHANGED <<errored, gen, shots>>

InputSends ==
  /\ Accepts /\ delivery = "send" /\ connected
  /\ shots' = shots + 1
  /\ emitted' = "nothing"
  /\ UNCHANGED <<streamVars, pending>>

InputBuilds ==
  /\ Accepts /\ delivery = "build"
  /\ emitted' = "message"
  /\ UNCHANGED <<streamVars, pending, shots>>

-----------------------------------------------------------------------------
(* Timers, settlements, deploys *)

Tick ==
  /\ streaming
  /\ Issues(connected, sending)
  /\ IssueIf(TRUE)
  /\ emitted' = "nothing"
  /\ UNCHANGED <<delivery, ttl, connected, streaming, expiry, errored, gen, shots, closed, inputs, deploys>>

Expire ==
  /\ expiry
  /\ StopStream
  /\ emitted' = "expired"
  /\ UNCHANGED <<delivery, ttl, connected, pending, shots, closed, inputs, deploys>>

\* Fault: a settlement reports for whatever stream runs now.
ReportsAny(g) == TRUE

\* A settlement of an earlier generation reports nothing ...
Reports(g) == g = gen

\* Fault: any settlement frees the stream for its next send.
OwnsAny(g) == TRUE

\* ... and does not free the stream that runs now.
Owns(g) == g = gen

\* A streamed send settles; a failure is reported once per streak.
StreamSendSettles(g, ok) ==
  /\ pending[g] > 0
  /\ pending' = [pending EXCEPT ![g] = @ - 1]
  /\ errored' = IF Reports(g) THEN ~ok ELSE errored
  /\ emitted' = IF Reports(g) /\ ~ok /\ ~errored THEN "error" ELSE "nothing"
  /\ sending' = IF Owns(g) THEN FALSE ELSE sending
  /\ UNCHANGED <<delivery, ttl, connected, streaming, expiry, gen, shots, closed, inputs, deploys>>

\* A single send settles; a closed node says nothing.
ShotSettles(ok) ==
  /\ shots > 0
  /\ shots' = shots - 1
  /\ emitted' = IF closed THEN "nothing" ELSE IF ok THEN "sent" ELSE "rejected"
  /\ UNCHANGED <<delivery, ttl, connected, streamVars, pending, closed, inputs, deploys>>

\* flows:started after a deploy that replaced the profile or the connection;
\* another deploy changes nothing.
DepsChanged(conn) ==
  /\ ~closed /\ deploys < MaxDeploys
  /\ deploys' = deploys + 1
  /\ connected' = conn
  /\ StopStream
  /\ emitted' = "nothing"
  /\ UNCHANGED <<delivery, ttl, pending, shots, closed, inputs>>

Close ==
  /\ ~closed
  /\ closed' = TRUE
  /\ StopStream
  /\ emitted' = "nothing"
  /\ UNCHANGED <<delivery, ttl, connected, pending, shots, inputs, deploys>>

-----------------------------------------------------------------------------
Start(mode, limited) ==
  /\ delivery = mode
  /\ ttl = limited
  /\ connected = TRUE
  /\ streaming = FALSE /\ expiry = FALSE /\ errored = FALSE /\ sending = FALSE
  /\ gen = 0
  /\ pending = [g \in Generations |-> 0]
  /\ shots = 0
  /\ closed = FALSE
  /\ inputs = 0 /\ deploys = 0
  /\ emitted = "nothing"

Init == \E mode \in {"build", "send", "stream"}, limited \in BOOLEAN : Start(mode, limited)

Settlements ==
  \/ \E g \in Generations, ok \in BOOLEAN : StreamSendSettles(g, ok)
  \/ \E ok \in BOOLEAN : ShotSettles(ok)

Next ==
  \/ InputStops \/ InputRejected \/ InputStreams \/ InputSends \/ InputBuilds
  \/ Tick \/ Expire \/ Settlements
  \/ \E conn \in BOOLEAN : DepsChanged(conn)
  \/ Close

Spec == Init /\ [][Next]_vars

\* An armed timer fires.
Fairness == WF_vars(Expire)

-----------------------------------------------------------------------------
(* Properties *)

\* "One in-flight send at a time keeps stopStream authoritative": the stream
\* that runs has one unsettled send at most, and exactly while _streamSending
\* says so, however many sends of stopped streams are still under way.
OneInFlight == pending[gen] = IF sending THEN 1 ELSE 0

\* A stopped stream is silent: until the next input no setpoint is issued, no
\* failure and no expiry is reported, though sends are still under way.
StoppedIsSilent ==
  [][delivery = "stream" /\ ~streaming /\ inputs' = inputs =>
       emitted' = "nothing" /\ \A g \in Generations : pending'[g] <= pending[g]]_vars

\* A closed node says nothing more, in any delivery mode.
ClosedIsSilent == [][closed => emitted' = "nothing"]_vars

\* A stream with a time to live always has its deadline armed, through refreshes,
\* stops, restarts and deploys, and no deadline outlives its stream.
DeadlineStands == (expiry => streaming) /\ (ttl /\ streaming => expiry)

\* "An abandoned flow cannot retransmit its final setpoint at the vehicle
\* forever": with a time to live a stream ends once the inputs do.
DeadmanStops == ttl /\ streaming ~> ~streaming
=============================================================================
