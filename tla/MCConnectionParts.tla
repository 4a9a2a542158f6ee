-------------------------- MODULE MCConnectionParts --------------------------
(***************************************************************************)
(* What the connection node owns, one part at a time: the locks commands   *)
(* compete for, identities, profiles, routes, subscriptions, the replay    *)
(* trackers, the attachment of flow nodes and the dialect of its profile.  *)
(* kind names the part that runs, the others stay in an initial state.     *)
(* The node's activation, on which several of them depend, is modelled by  *)
(* each of them as far as it matters there.                                *)
(***************************************************************************)
EXTENDS CommandWorkflow

CONSTANTS Ids, Wires, IdentityEdits,               \* of Identities
          Profs, Dialects, Clashing, ProfileEdits, \* of Profiles
          RemoteSysids, RemoteCompids, MaxRoutes,  \* of Router
          Values, MaxSubscriptions,                \* of Subscriptions
          Streams, SigningKeys, MaxTime, MaxFrames, MaxStreams, Window, \* of ReplayTracker
          MaxChanges,                              \* of Attachment
          Files, RefusedFile                           \* of IncludeGraph

\* What the code fixes of the constants: an identity has a source, a remote
\* component an id on the wire, a file is not a refusal.
ASSUME PartsAssumption ==
  /\ 1 \in Ids /\ 0 \notin Wires
  /\ 1 \in Profs
  /\ RemoteSysids \subseteq 1..255 /\ RemoteCompids \subseteq 1..255 /\ MaxRoutes \in Nat
  /\ \E c, d \in RemoteCompids : c # d
  /\ MaxTime \in Nat /\ Window \in Nat /\ SigningKeys # {}
  /\ 1 \in Files /\ RefusedFile \notin Files /\ IsFiniteSet(Files)

VARIABLES
  kind,
  bindings, settings, identityNodes, local, identityActive, identityTransport, timers,
  identityDeploy, identityEdits, sent,
  routed, profileNodes, profile, codec, cache, members, profileActive, profileTransport, splitter,
  fatal, status, replaced, link, profileDeploy, profileEdits,
  mode, unmatched, routes, acceptedSysids, acceptedCompids, target, decision,
  order, nextId, wants, limitedNow, signature, message, visited, shown, atStart, called,
  clock, key, max, maxAccepted, accepted,
  flowKind, conn, held, heldProfile, flow, first, own, deploy, changes,
  includes, root, stack, resolved, ordered, result

identityVars == <<bindings, settings, identityNodes, local, identityActive, identityTransport,
                  timers, identityDeploy, identityEdits, sent>>
profileVars == <<routed, profileNodes, profile, codec, cache, members, profileActive,
                 profileTransport, splitter, fatal, status, replaced, link, profileDeploy, profileEdits>>
routerVars == <<mode, unmatched, routes, acceptedSysids, acceptedCompids, target, decision>>
subscriptionVars == <<order, nextId, wants, limitedNow, signature, message, visited, shown, atStart, called>>
replayVars == <<clock, key, max, maxAccepted, accepted>>
attachmentVars == <<flowKind, conn, held, heldProfile, flow, first, own, deploy, changes>>
includeVars == <<includes, root, stack, resolved, ordered, result>>
parts == <<kind, vars, identityVars, profileVars, routerVars, subscriptionVars, replayVars,
           attachmentVars, includeVars>>

Id == INSTANCE Identities WITH registry <- identityNodes, active <- identityActive,
        transport <- identityTransport, deploy <- identityDeploy, edits <- identityEdits,
        MaxEdits <- IdentityEdits
Prof == INSTANCE Profiles WITH routes <- routed, registry <- profileNodes,
          active <- profileActive, transport <- profileTransport, deploy <- profileDeploy,
          edits <- profileEdits, MaxEdits <- ProfileEdits
Route == INSTANCE Router
Subs == INSTANCE Subscriptions WITH waits <- limitedNow
Replay == INSTANCE ReplayTracker
Attach == INSTANCE Attachment WITH kind <- flowKind, profile <- heldProfile
Graph == INSTANCE IncludeGraph WITH visited <- resolved

-----------------------------------------------------------------------------
(* What TLC starts the parts from. *)

Bindings ==
  {<<>>} \cup [{1} -> {s \in Id!Specs : s.identity = 2}]
    \cup {<<[identity |-> 2, allowOutbound |-> a, heartbeat |-> TRUE],
            [identity |-> 3, allowOutbound |-> TRUE, heartbeat |-> TRUE]>> : a \in BOOLEAN}

IdentityNodes == {r \in [Ids -> Id!Nodes \cup {Id!Absent}] : r[Id!Default].wire # 2 /\ r[3] = [wire |-> 2, valid |-> TRUE]}

ProfileNodes ==
  {[i \in Profs |-> IF i \in there THEN [id |-> i, age |-> 0, valid |-> TRUE, dialect |-> 1]
                                    ELSE Prof!Missing] : there \in SUBSET Profs}

IncludeLists == UNION {[1..n -> Files \cup {RefusedFile}] : n \in 0..2}

PartsInit ==
  /\ kind \in {"commands", "identities", "profiles", "router", "subscriptions", "replay",
               "attachment", "includes"}
  /\ Init
  /\ IF kind = "identities"
     THEN \E b \in Bindings, s \in [allowMultiple : {TRUE}, heartbeat : BOOLEAN], r \in IdentityNodes :
            Id!Start(b, s, r)
     ELSE Id!Start(<<>>, [allowMultiple |-> FALSE, heartbeat |-> FALSE], [i \in Ids |-> Id!Absent])
  /\ IF kind = "profiles"
     THEN \E named \in SUBSET (Profs \ {Prof!Main}), r \in ProfileNodes : Prof!Start(named, r)
     ELSE Prof!Start({}, [i \in Profs |-> Prof!Missing])
  /\ IF kind = "router" THEN Route!Init ELSE Route!Start("routed", "default", <<>>, {}, {})
  /\ Subs!Init
  /\ IF kind = "replay" THEN Replay!Init ELSE Replay!Start(CHOOSE k \in SigningKeys : TRUE)
  /\ IF kind = "attachment" THEN \E k \in {"in", "swarm", "vehicleState"} : Attach!Start(k)
                            ELSE Attach!Start("in")
  /\ IF kind = "includes" THEN \E graph \in [Files -> IncludeLists] : Graph!Start(graph, 1)
                          ELSE Graph!Start([f \in Files |-> <<>>], 1)

PartsNext ==
  /\ UNCHANGED kind
  /\ IF kind = "commands" THEN Next ELSE UNCHANGED vars
  /\ IF kind = "identities" THEN Id!Next ELSE UNCHANGED identityVars
  /\ IF kind = "profiles" THEN Prof!Next ELSE UNCHANGED profileVars
  /\ IF kind = "router" THEN Route!Next ELSE UNCHANGED routerVars
  /\ IF kind = "subscriptions" THEN Subs!Next ELSE UNCHANGED subscriptionVars
  /\ IF kind = "replay" THEN Replay!Next ELSE UNCHANGED replayVars
  /\ IF kind = "attachment" THEN Attach!Next ELSE UNCHANGED attachmentVars
  /\ IF kind = "includes" THEN Graph!Next ELSE UNCHANGED includeVars

PartsSpec == PartsInit /\ [][PartsNext]_parts

\* The fairness the modules of the parts state and justify.
PartsFairSpec == PartsSpec /\ Fairness /\ Subs!Fairness

-----------------------------------------------------------------------------
(* The properties of the parts, stated and explained in their modules. *)


\* No two identities transmit as one source, and the heartbeats that run are
\* those of the present identities and allowed to transmit.
SourcesDistinct == Id!SourcesDistinct /\ Id!HeartbeatsCurrent /\ Id!HeartbeatsPermitted
CleanPassClearsStatus == Prof!CleanPassClearsStatus
BroadcastViable == Route!BroadcastViable
LatestIsSeen == Subs!LatestIsSeen

\* No frame is let through twice, and no stream is opened by a stale frame.
NoReplay == Replay!NoReplay /\ Replay!FreshlyOpened

\* A flow node is attached to the present connection once, and holds the enums
\* of its profile.
AttachedOnce == Attach!AttachedOnce /\ Attach!EngineFollowsProfile
EngineIsCurrent == Attach!EngineIsCurrent

\* What is decoded is decoded with the definitions it is configured for: the
\* codecs and the splitter are those of the present profiles, and a dialect is
\* made of exactly the files it includes, in an order that resolves them; and
\* the error shown for a broken route goes away with it.
DialectsAreCurrent ==
  /\ Prof!CodecIsOfProfile /\ Prof!SplitterIsCurrent /\ Prof!RouteErrorClears
  /\ Graph!OrderIsSound

\* A message reaches the subscriptions that stand, all of them and no others,
\* whatever the callbacks do to the registry while it is dispatched.
DispatchReachesStanding == Subs!NotAfterUnsubscribe /\ Subs!NobodySkipped
=============================================================================
