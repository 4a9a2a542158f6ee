-------------------------------- MODULE Router -------------------------------
(***************************************************************************)
(* The packet router (lib/routing/packet-router.js over the table of       *)
(* lib/routing/route-table.js): which profile decodes the packets of a     *)
(* remote component, and whether the replies to a workflow that addresses  *)
(* a component, or all of a system's (component 0), would get through.     *)
(* The default profile is usable: a connection without one is inactive.    *)
(***************************************************************************)
EXTENDS Naturals, Sequences, FiniteSets

CONSTANTS RemoteSysids, RemoteCompids, \* ids of remote components, 0 not among them
          MaxRoutes

Any == 256 \* the wildcard
Profiles == {"default", "routed", "broken"} \* broken: unresolvable, or invalid

VARIABLES mode, unmatched, routes, acceptedSysids, acceptedCompids, \* configuration
          target,  \* the workflow's address
          decision \* its decision

vars == <<mode, unmatched, routes, acceptedSysids, acceptedCompids, target, decision>>

None == [accepted |-> FALSE, profile |-> "broken"]
Accept(p) == [accepted |-> TRUE, profile |-> p]

-----------------------------------------------------------------------------
\* The order of the table: the most specific first, ties as written.
Specificity(r) == (IF r.sysid # Any THEN 2 ELSE 0) + (IF r.compid # Any THEN 1 ELSE 0)

Earlier(i, j) ==
  \/ Specificity(routes[i]) > Specificity(routes[j])
  \/ Specificity(routes[i]) = Specificity(routes[j]) /\ i < j

First(S) == CHOOSE i \in S : \A j \in S \ {i} : Earlier(i, j)

Covers(field, id) == field \in {Any, id}
Usable(i) == routes[i].profile # "broken"
IdAccepted(id, allowed) == allowed = {} \/ id \in allowed

Unmatched == IF unmatched = "default" THEN Accept("default") ELSE None

\* match and route: the first matching route decides, broken or not.
Route(sysid, compid) ==
  LET matching == {i \in DOMAIN routes : Covers(routes[i].sysid, sysid) /\ Covers(routes[i].compid, compid)}
  IN  IF mode = "routed"
      THEN IF matching = {} THEN Unmatched
           ELSE IF Usable(First(matching)) THEN Accept(routes[First(matching)].profile) ELSE None
      ELSE IF IdAccepted(sysid, acceptedSysids) /\ IdAccepted(compid, acceptedCompids)
           THEN Accept("default") ELSE None

\* Routes some responder of the system may match.
ResponderRoutes(sysid) ==
  {i \in DOMAIN routes : Covers(routes[i].sysid, sysid) /\ routes[i].compid # 0}

\* Fault: a broken route does not shadow later routes for its component.
ShadowedNot(sysid, i) == FALSE

\* A broken earlier route for the same component takes all its replies.
Shadowed(sysid, i) ==
  /\ routes[i].compid # Any
  /\ \E j \in ResponderRoutes(sysid) :
       Earlier(j, i) /\ ~Usable(j) /\ routes[j].compid = routes[i].compid

\* The scan ends at the first usable route, and at a broken one for all components.
Ends(sysid) ==
  {i \in ResponderRoutes(sysid) : ~Shadowed(sysid, i) /\ (Usable(i) \/ routes[i].compid = Any)}

\* routeWorkflowTarget
RouteWorkflowTarget(sysid, compid) ==
  IF compid # 0 THEN Route(sysid, compid)
  ELSE IF mode = "routed"
       THEN IF Ends(sysid) = {} THEN Unmatched
            ELSE IF Usable(First(Ends(sysid))) THEN Accept(routes[First(Ends(sysid))].profile) ELSE None
       ELSE IF /\ IdAccepted(sysid, acceptedSysids)
               /\ acceptedCompids = {} \/ acceptedCompids # {0}
            THEN Accept("default") ELSE None

-----------------------------------------------------------------------------
Decide ==
  /\ target[1] = 0
  /\ \E sysid \in RemoteSysids, compid \in RemoteCompids \cup {0} :
       /\ target' = <<sysid, compid>>
       /\ decision' = RouteWorkflowTarget(sysid, compid)
  /\ UNCHANGED <<mode, unmatched, routes, acceptedSysids, acceptedCompids>>

\* Routes name one component of the remote ones, 0 or any; so some component is
\* always left without a route of its own.
Named == {CHOOSE c \in RemoteCompids : TRUE}
RouteEntries == [sysid : RemoteSysids \cup {Any}, compid : Named \cup {0, Any}, profile : Profiles \ {"default"}]
Tables == UNION {[1..n -> RouteEntries] : n \in 0..MaxRoutes}

Start(m, u, table, sysids, compids) ==
  /\ mode = m /\ unmatched = u /\ routes = table
  /\ acceptedSysids = sysids /\ acceptedCompids = compids
  /\ target = <<0, 0>> /\ decision = None

Init ==
  \/ \E u \in {"default", "reject"}, table \in Tables : Start("routed", u, table, {}, {})
  \/ \E sysids \in SUBSET RemoteSysids, compids \in SUBSET (Named \cup {0}) :
       Start("single-profile", "default", <<>>, sysids, compids)

Next == Decide

Spec == Init /\ [][Next]_vars

-----------------------------------------------------------------------------
(* Properties *)

\* A broadcast to a system's components is accepted when, and only when, some
\* real component of the system gets its replies through, whatever mixture of
\* broken, shadowing and wildcard routes there is; and the profile it adopts is
\* one some component's replies are decoded with.
BroadcastViable ==
  target[1] # 0 /\ target[2] = 0 =>
    LET answers == {Route(target[1], c) : c \in RemoteCompids} \ {None}
    IN  IF decision.accepted THEN decision \in answers ELSE answers = {}
=============================================================================
