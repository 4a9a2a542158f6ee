---------------------------- MODULE ReplayTracker ----------------------------
(***************************************************************************)
(* The anti-replay rules of a signing key's inbound frames                 *)
(* (lib/protocol/replay-tracker.js) and the trackers a link keeps by key   *)
(* (lib/protocol/link-state.js).  Signatures are verified before; a frame  *)
(* that was on the link once can come again at any time.                   *)
(***************************************************************************)
EXTENDS Naturals, FiniteSets

CONSTANTS Streams,    \* sysid:compid:linkId
          SigningKeys,
          MaxTime,    \* bound on timestamps and the clock
          MaxFrames,  \* bound on the frames let through
          MaxStreams, \* MAX_SIGNING_STREAMS
          Window      \* FRESHNESS_WINDOW_UNITS

VARIABLES clock,       \* the receiver's own, possibly behind
          key,         \* the verification key of the current codec
          max,         \* _max by key: partial function stream -> timestamp
          maxAccepted, \* _maxAccepted by key
          accepted     \* history: <<key, stream, timestamp>> let through

vars == <<clock, key, max, maxAccepted, accepted>>

-----------------------------------------------------------------------------
Max2(a, b) == IF a > b THEN a ELSE b

\* Fault: the window is measured from the receiver's clock alone.
ReferenceClock == clock

Reference == Max2(clock, maxAccepted[key])

Known(s) == s \in DOMAIN max[key]

\* A new stream has to be fresh, and to find room in the table.
Fresh(ts) == ts + Window >= Reference

Room == Cardinality(DOMAIN max[key]) < MaxStreams

\* The monotonic rule; freshness is not asked again of a known stream.
Advances(s, ts) == ts > max[key][s]

Record(s, ts, streams) ==
  /\ Cardinality(accepted) < MaxFrames
  /\ max' = [max EXCEPT ![key] = [x \in streams \cup {s} |-> IF x = s THEN ts ELSE max[key][x]]]
  /\ maxAccepted' = [maxAccepted EXCEPT ![key] = Max2(@, ts)]
  /\ accepted' = accepted \cup {<<key, s, ts>>}
  /\ UNCHANGED <<clock, key>>

\* Fault: a full table forgets a stream to make room for a new one.
CheckEvicting(s, ts) ==
  IF Known(s) THEN Advances(s, ts) /\ Record(s, ts, DOMAIN max[key])
  ELSE /\ Fresh(ts)
       /\ Record(s, ts, IF Room THEN DOMAIN max[key]
                        ELSE DOMAIN max[key] \ {CHOOSE x \in DOMAIN max[key] : TRUE})

\* check, of a frame that is accepted; a rejected one leaves no trace.
Check(s, ts) ==
  /\ IF Known(s) THEN Advances(s, ts) ELSE Fresh(ts) /\ Room
  /\ Record(s, ts, DOMAIN max[key])

\* A profile edit or another key: trackers stay with the link, by key.
Rekey(k) ==
  /\ k # key
  /\ key' = k
  /\ UNCHANGED <<clock, max, maxAccepted, accepted>>

ClockTicks ==
  /\ clock < MaxTime
  /\ clock' = clock + 1
  /\ UNCHANGED <<key, max, maxAccepted, accepted>>

Start(k) ==
  /\ clock = 0 /\ key = k
  /\ max = [x \in SigningKeys |-> [s \in {} |-> 0]]
  /\ maxAccepted = [x \in SigningKeys |-> 0]
  /\ accepted = {}

Init == \E k \in SigningKeys : Start(k)

Next ==
  \/ \E s \in Streams, ts \in 0..MaxTime : Check(s, ts)
  \/ \E k \in SigningKeys : Rekey(k)
  \/ ClockTicks

Spec == Init /\ [][Next]_vars

-----------------------------------------------------------------------------
(* Properties *)

\* A frame that was let through is never let through again, nor an older one of
\* its stream, though the table is bounded and the key is changed and changed
\* back meanwhile.
NoReplay ==
  [][\A k \in SigningKeys, s \in Streams, ts \in 0..MaxTime :
       (key = k /\ Check(s, ts)) => \A t \in ts..MaxTime : <<k, s, t>> \notin accepted]_vars

\* A stream whose first frame let through was older than any other frame let
\* through before by more than the window was opened by a stale capture; a slow
\* receiver's clock does not let that happen.
Opened(s) == ~Known(s) /\ s \in DOMAIN max'[key]
FreshlyOpened ==
  [][\A s \in Streams, other \in accepted :
       (key' = key /\ Opened(s) /\ other[1] = key) => max'[key][s] + Window >= other[3]]_vars
=============================================================================
