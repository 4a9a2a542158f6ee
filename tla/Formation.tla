------------------------------ MODULE Formation ------------------------------
(***************************************************************************)
(* The formation node in follow-leader mode (nodes/mavlink-ai-formation.js)*)
(* : on every message, on a tick and on an input it looks at its vehicle   *)
(* table, replaces a lost leader and commands the followers to their slots *)
(* around it, at a limited rate and not for a leader that hardly moved.    *)
(***************************************************************************)
EXTENDS VehicleRegistry

VARIABLES fleet,       \* the registry
          staleAction, \* configuration
          leader,      \* currentLeader
          due,         \* minIntervalMs has passed since lastEmit
          lastPlace,   \* lastLeaderPos, 0 for null
          lastFollowers, \* lastFollowerSig
          attached, closed,
          placed,      \* vehicles commanded since they joined
          alone,       \* the leader was seen without followers since the last command
          judged       \* the last evaluation got past the rate limit

formation == <<leader, due, lastPlace, lastFollowers>>
history == <<placed, alone, judged>>
vars == <<fleet, staleAction, formation, attached, closed, history>>

-----------------------------------------------------------------------------
\* vehicles({sysids: [leader]})[0]: the component of lowest id.
Leads(table, e) ==
  /\ e \in Listed(table) /\ e[1] = leader
  /\ \A x \in Listed(table) : x[1] = leader => e[2] <= x[2]

Lost(table) == ~\E e \in Entries : Leads(table, e) /\ ~Stale(table, e)

\* A fresh position, not just any: the table keeps the last fix.
Ready(table) == \E e \in Entries : Leads(table, e) /\ table[e].fix = "fresh"

LeaderPlace(table) == table[CHOOSE e \in Entries : Leads(table, e)].place

\* followerSysids
FollowerSysids(table) == ListedSysids(table, FALSE) \ {leader}

Least(S) == CHOOSE x \in S : \A y \in S : x <= y

\* Fault: succession does not wrap around.
NextLeaderNoWrap(candidates) ==
  LET higher == {s \in candidates : s > leader} IN {x \in higher : x = Least(higher)}

\* nextLeaderSysid: the next higher one present, else the lowest; none if empty.
NextLeader(candidates) ==
  LET higher == {s \in candidates : s > leader}
      pool == IF higher # {} THEN higher ELSE candidates
  IN  {x \in pool : x = Least(pool)}

\* handleStale: promotion forgets the last emission and does not emit itself.
HandleStale(table) ==
  LET next == IF staleAction = "successor" THEN NextLeader(FollowerSysids(table)) ELSE {}
  IN  IF next = {} THEN UNCHANGED formation
      ELSE leader' \in next /\ due' = TRUE /\ lastPlace' = 0 /\ lastFollowers' = {}

\* Fault: the move gate holds for a changed membership too.
MovedOnly(table) == lastPlace = 0 \/ LeaderPlace(table) # lastPlace

\* The minimum move gate, bypassed when the membership has changed.
Moved(table) ==
  \/ FollowerSysids(table) # lastFollowers
  \/ lastPlace = 0
  \/ LeaderPlace(table) # lastPlace

\* The followers' targets go out; with none there is nothing to do.
EmitFollowers(table) ==
  IF FollowerSysids(table) = {}
  THEN UNCHANGED formation /\ placed' = {} /\ alone' = TRUE
  ELSE /\ due' = FALSE
       /\ lastPlace' = LeaderPlace(table)
       /\ lastFollowers' = FollowerSysids(table)
       /\ placed' = FollowerSysids(table)
       /\ alone' = FALSE
       /\ UNCHANGED leader

\* maybeEmit, on the table as it is after expiry.
MaybeEmit(table, force) ==
  /\ fleet' = Expired(table)
  /\ \/ /\ Lost(table)
        /\ HandleStale(table)
        /\ judged' = FALSE
        /\ UNCHANGED <<placed, alone>>
     \/ /\ ~Lost(table) /\ (~Ready(table) \/ ~(force \/ due))
        /\ judged' = FALSE
        /\ UNCHANGED <<formation, placed, alone>>
     \/ /\ ~Lost(table) /\ Ready(table) /\ (force \/ due)
        /\ judged' = TRUE
        /\ IF force \/ Moved(table) THEN EmitFollowers(table)
           ELSE /\ placed' = placed \cap FollowerSysids(table)
                /\ UNCHANGED <<formation, alone>>

-----------------------------------------------------------------------------
\* A message of the subscription (heartbeats and global positions).
Receive(e, message, place) ==
  /\ attached
  /\ MaybeEmit(Ingest(fleet, e, message, place), FALSE)
  /\ UNCHANGED <<staleAction, attached, closed>>

\* The fallback tick.
Tick == ~closed /\ MaybeEmit(fleet, FALSE) /\ UNCHANGED <<staleAction, attached, closed>>

\* An input forces an emission past both gates.
Poke == ~closed /\ MaybeEmit(fleet, TRUE) /\ UNCHANGED <<staleAction, attached, closed>>

TimePasses ==
  /\ ~closed
  /\ fleet' \in Older(fleet)
  /\ judged' = FALSE
  /\ UNCHANGED <<staleAction, formation, attached, closed, placed, alone>>

IntervalPasses ==
  /\ ~closed /\ ~due /\ due' = TRUE
  /\ judged' = FALSE
  /\ UNCHANGED <<fleet, staleAction, leader, lastPlace, lastFollowers, attached, closed, placed, alone>>

\* attach() on flows:started: the table survives.
Attach(present) ==
  /\ ~closed /\ present # attached
  /\ attached' = present
  /\ UNCHANGED <<fleet, staleAction, formation, closed, history>>

Close ==
  /\ ~closed
  /\ closed' = TRUE /\ attached' = FALSE
  /\ UNCHANGED <<fleet, staleAction, formation, history>>

-----------------------------------------------------------------------------
Start(action, sysid) ==
  /\ fleet = EmptyTable
  /\ staleAction = action
  /\ leader = sysid
  /\ due = TRUE /\ lastPlace = 0 /\ lastFollowers = {}
  /\ attached = TRUE /\ closed = FALSE
  /\ placed = {} /\ alone = FALSE /\ judged = FALSE

Systems == {e[1] : e \in Entries}

Init == \E action \in {"successor", "hold", "stop"}, sysid \in Systems : Start(action, sysid)

Next ==
  \/ \E e \in Entries, message \in {"heartbeat", "position"}, place \in Places : Receive(e, message, place)
  \/ Tick \/ Poke
  \/ TimePasses \/ IntervalPasses
  \/ \E present \in BOOLEAN : Attach(present)
  \/ Close

Spec == Init /\ [][Next]_vars

\* The tick runs as long as the node does.
Fairness == WF_vars(Tick) /\ WF_vars(IntervalPasses)

-----------------------------------------------------------------------------
(* Properties *)

Fresh == {s \in Systems : \E e \in Entries : e[1] = s /\ fleet[e].known /\ ~fleet[e].gone /\ fleet[e].beat = "fresh"}

\* A follower that joins, or comes back, receives its slot though the leader
\* stands still: an evaluation past the rate limit leaves no fresh follower
\* without one, unless the leader was without any follower in between (the
\* signature of the last emission is kept then).
NewcomersPlaced == judged => (FollowerSysids(fleet) \subseteq placed \/ alone)

\* "A follower joining or leaving must re-emit even when the leader is
\* stationary, or a newly-arrived vehicle never receives its slot".
EveryonePlaced == judged => FollowerSysids(fleet) \subseteq placed

\* In successor mode a group that keeps live members does not stay without a
\* live leader: succession is retried until one is found, around the end of
\* the numbers.
SuccessionEnds ==
  \A live \in SUBSET Systems :
    staleAction = "successor" /\ live # {} /\ <>[](Fresh = live /\ ~closed) => <>[](leader \in Fresh)
=============================================================================
