--------------------------- MODULE VehicleRegistry ---------------------------
(***************************************************************************)
(* The table of the vehicles heard on a link (lib/swarm/vehicle-registry.js*)
(* ), as a value: what a message or the passing of time makes of it and    *)
(* what a snapshot shows.  The nodes that own a table extend this module.  *)
(* Time is kept as thresholds: a heartbeat or a position is older than     *)
(* staleMs or not, the last message older than expireMs or not.            *)
(***************************************************************************)
EXTENDS Naturals, FiniteSets

CONSTANTS Entries, \* <<sysid, compid>> of the components that send heartbeats
          Places   \* positions at least the minimum move apart

ASSUME RegistryAssumption == Entries \subseteq Nat \X Nat

Ages == {"fresh", "stale"}
Unknown == [known |-> FALSE, beat |-> "stale", gone |-> FALSE, fix |-> "none", place |-> 0]

Records == [known : BOOLEAN, beat : Ages, gone : BOOLEAN, fix : Ages \cup {"none"}, place : Places \cup {0}]

EmptyTable == [e \in Entries |-> Unknown]

Messages == {"heartbeat", "gcsHeartbeat", "position", "other"}

-----------------------------------------------------------------------------
\* Only a heartbeat discovers, and not that of a ground station; a record that
\* has outlived expireMs but was not removed yet is taken up again.
Discovers(table, e, message) == table[e].known \/ message = "heartbeat"

\* ingest
Ingest(table, e, message, place) ==
  IF message = "gcsHeartbeat" \/ ~Discovers(table, e, message) THEN table
  ELSE [table EXCEPT ![e] =
         [known |-> TRUE,
          gone |-> FALSE,
          beat |-> IF message = "heartbeat" THEN "fresh" ELSE @.beat,
          fix |-> IF message = "position" THEN "fresh" ELSE @.fix,
          place |-> IF message = "position" THEN place ELSE @.place]]

Added(table, e, message) == ~table[e].known /\ Ingest(table, e, message, 0)[e].known

\* The passing of time: staleMs since the last heartbeat, staleMs since the
\* last position, expireMs (taken to be the longer one) since the last message.
BeatAges(table, e) ==
  IF table[e].known THEN [table EXCEPT ![e].beat = "stale"] ELSE table

FixAges(table, e) ==
  IF table[e].fix = "fresh" THEN [table EXCEPT ![e].fix = "stale"] ELSE table

FallsSilent(table, e) ==
  IF table[e].known
  THEN [table EXCEPT ![e] = [@ EXCEPT !.gone = TRUE, !.beat = "stale",
                                      !.fix = IF @ = "none" THEN @ ELSE "stale"]]
  ELSE table

Older(table) ==
  UNION {{BeatAges(table, e), FixAges(table, e), FallsSilent(table, e)} : e \in Entries} \ {table}

\* _expire: lazy, called by every snapshot.
Expired(table) == [e \in Entries |-> IF table[e].gone THEN Unknown ELSE table[e]]

\* vehicles(): what is listed after expiry, and whether it is stale.
Listed(table) == {e \in Entries : Expired(table)[e].known}

Stale(table, e) == table[e].beat = "stale"

\* sysids(): a system is listed as soon as one of its components is.
ListedSysids(table, includeStale) ==
  {e[1] : e \in {x \in Listed(table) : includeStale \/ ~Stale(table, x)}}
=============================================================================
