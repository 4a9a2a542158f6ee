----------------------------- MODULE SignedLink -----------------------------
(***************************************************************************)
(* A signed link: send() encodes and signs each frame before it enters the *)
(* outbound queue, and the peer applies the monotonic rule of the signing  *)
(* specification to what arrives, as lib/protocol/replay-tracker.js does   *)
(* on this side.  All sends share one local identity, so one signing       *)
(* stream.                                                                 *)
(***************************************************************************)
EXTENDS OutboundQueue

CONSTANT MaxStamp   \* bound: timestamps handed out

VARIABLES lastStamp,  \* LinkState: last outbound timestamp of the stream
          stamp,      \* the timestamp inside each send's frame
          accepted,   \* peer: timestamps accepted on the stream
          replayed    \* peer: frames dropped as replays, <<timestamp, band>>

linkVars == <<lastStamp, stamp, accepted, replayed>>

\* The band of the periodic heartbeat, the one producer that coalesces.
BACKGROUND == 3

\* Fault: two frames signed in the same millisecond share a timestamp.
NextStampSameMillisecond(last) == IF last = 0 THEN 1 ELSE last

\* nextSignTimestampMs: strictly above the last one, whatever the clock says.
NextStamp(last) == last + 1

\* send(): encode with the next timestamp, then enqueue.  A refused frame has
\* used up its timestamp.
SendSigned(s, prio, key) ==
  /\ lastStamp < MaxStamp
  /\ key # NoKey <=> prio = BACKGROUND
  /\ Enqueue(s, prio, key)
  /\ lastStamp' = NextStamp(lastStamp)
  /\ stamp' = [stamp EXCEPT ![s] = NextStamp(lastStamp)]
  /\ UNCHANGED <<accepted, replayed>>

Advances(ts) == \A t \in accepted : ts > t

\* ReplayTracker.check on an established stream: a timestamp that does not
\* advance is a replay.
Receive(ts, band) ==
  \/ Advances(ts) /\ accepted' = accepted \cup {ts} /\ UNCHANGED replayed
  \/ ~Advances(ts) /\ replayed' = replayed \cup {<<ts, band>>} /\ UNCHANGED accepted

\* A frame that was written reaches the peer; a failed write does not.
FrameLeaves(written) ==
  /\ WriteSettles(written)
  /\ IF written THEN Receive(stamp[inFlight.send], inFlight.prio)
                ELSE UNCHANGED <<accepted, replayed>>
  /\ UNCHANGED <<lastStamp, stamp>>

LinkInit ==
  /\ Init
  /\ enabled
  /\ lastStamp = 0
  /\ stamp = [s \in Sends |-> 0]
  /\ accepted = {}
  /\ replayed = {}

LinkNext ==
  \/ \E s \in Sends, prio \in Priorities, key \in Keys \cup {NoKey} : SendSigned(s, prio, key)
  \/ \E written \in BOOLEAN : FrameLeaves(written)
  \/ (\E keys \in SUBSET Keys : DropCoalescedMatching(keys)) /\ UNCHANGED linkVars
  \/ Clear /\ UNCHANGED linkVars
  \/ Tick /\ UNCHANGED linkVars

LinkSpec == LinkInit /\ [][LinkNext]_<<vars, linkVars>>

-----------------------------------------------------------------------------
(* Properties *)

\* No frame this side signed and wrote is dropped by the peer as a replay
\* (the purpose nextSignTimestampMs states for its strictly increasing
\* timestamps).
NoFrameLooksReplayed == replayed = {}

\* A dropped frame was overtaken, never repeated: no timestamp reaches the peer
\* twice, so what the peer drops it has not seen; and it costs only traffic that
\* yielded: an emergency frame that was written is never dropped.
DropsAreOvertaken == \A r \in replayed : r[1] \notin accepted /\ r[2] > EMERGENCY_PRIORITY
=============================================================================
