------------------------------ MODULE Profiles ------------------------------
(***************************************************************************)
(* The vehicle profiles of a connection across deploys that edit, delete   *)
(* and recreate them while the connection stays up                         *)
(* (nodes/mavlink-ai-connection.js, #116, #117): the codec cache, the      *)
(* splitter built from the merged CRC table of every routed dialect, and   *)
(* the status that reports broken routes.                                  *)
(***************************************************************************)
EXTENDS Integers, FiniteSets

CONSTANTS Profs,     \* ids of the profile nodes; Main is the connection's default
          Dialects,  \* what a valid profile may decode with
          Clashing,  \* the pairs of dialects that disagree on a CRC of one message
          MaxEdits   \* bound: profile nodes replaced

VARIABLES routes,    \* the profiles the route table names
          registry,  \* RED.nodes.getNode: id -> profile node, or Missing
          profile,   \* node.profile, and _router.defaultProfile
          codec,     \* _codec: the node it was built from
          cache,     \* _codecByProfile: id -> the node its codec was built from
          members,   \* _activeProfiles
          active,    \* _active
          transport, \* _transport is set
          splitter,  \* the decoders: the profiles merged into them, or {}
          fatal,     \* decoderFatal
          status,    \* statusState and statusDetail
          replaced,  \* statusBeforeRouteError
          link,      \* the status the transport set last
          deploy,    \* where the present deploy is: "stopping", "starting" or "done"
          edits

vars == <<routes, registry, profile, codec, cache, members, active, transport, splitter, fatal,
          status, replaced, link, deploy, edits>>

Main == 1
Missing == [id |-> 0, age |-> 0, valid |-> FALSE, dialect |-> 0]
NoCache == [i \in Profs |-> Missing]

-----------------------------------------------------------------------------
(* Codecs *)

\* Fault: an entry is reused whatever node it was built from.
FreshById(p) == cache[p.id] # Missing

\* "Reuse the cached codec only when it was built from this same profile object".
Fresh(p) == cache[p.id] = p

\* getCodecForProfile: the codec of p, by the node it was built from.
CodecOf(p) == IF p = profile THEN codec ELSE IF Fresh(p) THEN cache[p.id] ELSE p

\* The cache once codecs of the valid profiles of ps have been asked for.
Cached(ps, was, dflt) ==
  [i \in Profs |->
    LET asked == {p \in ps : p.id = i /\ p # dflt}
    IN  CASE asked = {}                       -> was[i]
          [] \E p \in asked : p.valid         -> CHOOSE p \in asked : p.valid
          [] \E p \in asked : p = was[i]      -> was[i]
          [] OTHER                            -> Missing]

Resolved(ids) == {registry[i] : i \in {j \in ids : registry[j] # Missing}}

\* computeActiveProfiles
ActiveWith(dflt) == {dflt} \cup Resolved(routes)

\* buildMergedMagic throws: two valid profiles define a message differently.
Conflict(ps) == \E p, q \in {r \in ps : r.valid} : {p.dialect, q.dialect} \in Clashing

-----------------------------------------------------------------------------
(* Inbound packets, sends and transport events *)

\* ensureDecoder: the splitter is built on the first data.
BuildSplitter ==
  /\ active /\ transport
  /\ ~fatal
  /\ splitter = {}
  /\ IF Conflict(ActiveWith(profile))
       THEN fatal' = TRUE /\ status' = "conflict" /\ UNCHANGED splitter
       ELSE splitter' = ActiveWith(profile) /\ UNCHANGED <<fatal, status>>
  /\ UNCHANGED <<routes, registry, profile, codec, cache, members, active, transport, replaced,
                 link, deploy, edits>>

\* onPacket of a framed packet, or send() of a message that names the profile.
Uses(id) ==
  /\ active
  /\ registry[id] # Missing
  /\ registry[id].valid
  /\ cache' = Cached({registry[id]}, cache, profile)
  /\ cache' # cache
  /\ UNCHANGED <<routes, registry, profile, codec, members, active, transport, splitter, fatal,
                 status, replaced, link, deploy, edits>>

\* startTransport: at once, or when the previous transport has stopped.
TransportStarts ==
  /\ active /\ ~transport
  /\ transport' = TRUE
  /\ fatal' = FALSE
  /\ status' = "connecting"
  /\ link' = "connecting"
  /\ UNCHANGED <<routes, registry, profile, codec, cache, members, active, splitter, replaced,
                 deploy, edits>>

\* 'listening', 'connected', 'error', or 'reconnecting', which drops the decoders.
TransportEvent(event) ==
  /\ transport
  /\ status' = event
  /\ link' = event
  /\ splitter' = IF event = "reconnecting" THEN {} ELSE splitter
  /\ UNCHANGED <<routes, registry, profile, codec, cache, members, active, transport, fatal,
                 replaced, deploy, edits>>

-----------------------------------------------------------------------------
(* Deploys *)

\* Node-RED stops the nodes a deploy removes or replaces, ...
Remove(id) ==
  /\ deploy \in {"done", "stopping"}
  /\ edits < MaxEdits
  /\ registry[id] # Missing
  /\ registry' = [registry EXCEPT ![id] = Missing]
  /\ edits' = edits + 1
  /\ deploy' = "stopping"
  /\ UNCHANGED <<routes, profile, codec, cache, members, active, transport, splitter, fatal,
                 status, replaced, link>>

\* ... then creates the ones it adds or replaces; flows:started comes last.
Create(id, p) ==
  /\ registry[id] = Missing
  /\ edits < MaxEdits
  /\ registry' = [registry EXCEPT ![id] = p]
  /\ edits' = edits + 1
  /\ deploy' = "starting"
  /\ UNCHANGED <<routes, profile, codec, cache, members, active, transport, splitter, fatal,
                 status, replaced, link>>

\* deactivate
FailClosed ==
  /\ deploy # "done"
  /\ ~registry[Main].valid
  /\ active' = FALSE
  /\ transport' = FALSE
  /\ cache' = IF active THEN NoCache ELSE cache
  /\ members' = IF active THEN {} ELSE members
  /\ splitter' = {}
  /\ status' = IF active THEN "inactive" ELSE status
  /\ deploy' = "done"
  /\ UNCHANGED <<routes, registry, profile, codec, fatal, replaced, link, edits>>

\* Fault: edits are noticed by the ids of the profiles.
SameSetById(ps, qs) == {p.id : p \in ps} = {q.id : q \in qs}

\* sameProfileSet
SameSet(ps, qs) == ps = qs

\* reconcileRoutedProfiles: what is stale or unreferenced leaves the cache.
Kept(entries, now) == [i \in Profs |-> IF entries[i] \in now THEN entries[i] ELSE Missing]

\* Fault: a broken route keeps the status it found on every pass.
RememberedAlways == status

\* The status a route error replaces is remembered once.
Remembered == IF status = "routes" THEN replaced ELSE status

\* validateRouteProfiles: broken routes show in the status, a clean pass
\* restores what they replaced.
ValidateRoutes(now) ==
  IF (\E i \in routes : ~registry[i].valid) \/ Conflict(now)
    THEN status' = "routes" /\ replaced' = Remembered
    ELSE IF status = "routes"
      THEN status' = (IF replaced = "none" THEN "idle" ELSE replaced) /\ replaced' = "none"
      ELSE UNCHANGED <<status, replaced>>

\* onFlowsStarted with a valid default: rebuildProfileState or reactivate when
\* it changed, then the routed profiles.
Reconcile ==
  /\ deploy # "done"
  /\ registry[Main].valid
  /\ LET dflt == registry[Main]
         now == ActiveWith(dflt)
         rebuilt == ~active \/ dflt # profile
         entries == IF rebuilt THEN [NoCache EXCEPT ![Main] = dflt] ELSE cache
         before == IF active THEN members ELSE now
         reset == (active /\ rebuilt) \/ ~SameSet(now, before)
     IN  /\ profile' = dflt
         /\ codec' = IF rebuilt THEN dflt ELSE codec
         /\ cache' = Cached(Resolved(routes), Kept(entries, now), dflt)
         /\ members' = IF SameSet(now, before) THEN before ELSE now
         /\ splitter' = IF reset THEN {} ELSE splitter
         /\ fatal' = (fatal /\ ~reset)
         /\ ValidateRoutes(now)
  /\ active' = TRUE
  /\ deploy' = "done"
  /\ UNCHANGED <<routes, registry, transport, link, edits>>

-----------------------------------------------------------------------------
\* The constructed connection, whose default profile may be missing or invalid.
Start(named, r) ==
  /\ routes = named
  /\ registry = r
  /\ profile = r[Main]
  /\ codec = r[Main]
  /\ active = r[Main].valid
  /\ cache = IF active THEN [NoCache EXCEPT ![Main] = r[Main]] ELSE NoCache
  /\ members = ActiveWith(r[Main]) \ {Missing}
  /\ transport = FALSE
  /\ splitter = {}
  /\ fatal = FALSE
  /\ status = IF active THEN "idle" ELSE "inactive"
  /\ replaced = "none"
  /\ link = "none"
  /\ deploy = "starting"
  /\ edits = 0

\* The nodes a deploy may create under this id.
NewNodes(id) ==
  {[id |-> id, age |-> edits + 1, valid |-> FALSE, dialect |-> 0]}
  \cup {[id |-> id, age |-> edits + 1, valid |-> TRUE, dialect |-> d] : d \in Dialects}

Next ==
  \/ BuildSplitter
  \/ \E id \in Profs : Uses(id)
  \/ TransportStarts
  \/ \E event \in {"connected", "reconnecting", "error"} : TransportEvent(event)
  \/ \E id \in Profs : Remove(id)
  \/ \E id \in Profs : \E p \in NewNodes(id) : Create(id, p)
  \/ FailClosed
  \/ Reconcile

-----------------------------------------------------------------------------
(* Properties *)

\* A routed packet "must not be decoded or encoded with a dialect other than
\* the one its route names" (resolveProfile): at any point of a deploy, the
\* codec used for a profile was built from the very node that stands for it.
CodecIsOfProfile ==
  active => /\ CodecOf(profile) = profile
            /\ \A i \in Profs : registry[i].valid => CodecOf(registry[i]) = registry[i]

\* A splitter knows the CRCs of exactly the present profiles once a deploy is
\* reconciled; with an older table it would drop their packets unseen, or
\* refuse to decode a configuration that is sound again.
SplitterIsCurrent ==
  deploy = "done" /\ active =>
    /\ splitter \in {{}, ActiveWith(registry[Main])}
    /\ (fatal /\ transport => Conflict(ActiveWith(registry[Main])))

\* A running connection after a deploy that left no broken route.
RunsClean ==
  /\ deploy = "done" /\ active /\ transport
  /\ \A i \in routes : registry[i].valid
  /\ ~Conflict(ActiveWith(registry[Main]))

\* "A clean pass clears the stale error status (restoring whatever status the
\* error replaced)" (validateRouteProfiles): after a deploy without broken
\* routes, the status of a running connection is the one its transport set.
CleanPassClearsStatus == RunsClean => status = link

\* The same of the error validateRouteProfiles sets itself: however deploys,
\* teardowns and transport events follow each other, it is not what stays.
RouteErrorClears == RunsClean => status \in {link, "conflict"}
=============================================================================
