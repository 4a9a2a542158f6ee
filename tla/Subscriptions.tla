---------------------------- MODULE Subscriptions ----------------------------
(***************************************************************************)
(* The subscription registry of a connection (lib/runtime/subscription-    *)
(* registry.js) for one stream of messages: a message is dispatched to the *)
(* live map of subscriptions, one callback after another, and a callback   *)
(* may throw, end any subscription and make new ones.  Each subscription   *)
(* may be rate limited and want changed messages only; what it remembers   *)
(* for that is bounded (lib/util/bounded-map.js).  The filter node         *)
(* (nodes/mavlink-ai-filter.js) applies the same rules to one output.      *)
(***************************************************************************)
EXTENDS Naturals, Sequences, FiniteSets, SequencesExt

CONSTANTS Values,          \* what the fields of the messages may hold
          MaxSubscriptions \* bound on subscriptions ever made

SubscriptionIds == 1..MaxSubscriptions
Nothing == 0 \* no value

VARIABLES order,     \* _subs: ids in insertion order
          nextId,    \* _nextId
          wants,     \* id -> [limited, changed]: its filter
          waits,     \* ids delivered to less than a rate interval ago
          signature, \* id -> value delivered last, if remembered
          message,   \* value in dispatch
          visited,   \* ids the running dispatch has gone past
          shown,     \* history: id -> value its callback saw last
          atStart,   \* history: subscriptions of the start of the dispatch
          called     \* history: callbacks of the dispatch

registry == <<order, nextId, wants>>
memory == <<waits, signature>>
vars == <<registry, memory, message, visited, shown, atStart, called>>

Filters == [limited : BOOLEAN, changed : BOOLEAN]

-----------------------------------------------------------------------------
Subscribed(id) == Contains(order, id)

\* Fault: dispatch counts positions of an array that removal shifts.
PendingByIndex == {k \in DOMAIN order : k > Cardinality(visited)}

\* What the iterator of the live map has yet to visit, as positions.
Pending == {k \in DOMAIN order : order[k] \notin visited}

\* Fault: the change is noted before the rate limit is asked.
NotesEarly(id) == wants[id].changed

\* A signature is remembered only when the message is delivered.
Notes(id) == wants[id].changed /\ ~(wants[id].limited /\ id \in waits)

Due(id) ==
  /\ ~(wants[id].limited /\ id \in waits)
  /\ ~(wants[id].changed /\ signature[id] = message)

Remember(id) ==
  /\ signature' = IF Notes(id) THEN [signature EXCEPT ![id] = message] ELSE signature
  /\ waits' = IF Due(id) /\ wants[id].limited THEN waits \cup {id} ELSE waits

-----------------------------------------------------------------------------
Added(f) ==
  /\ nextId \in SubscriptionIds
  /\ order' = Append(order, nextId)
  /\ nextId' = nextId + 1
  /\ wants' = [wants EXCEPT ![nextId] = f]

Removed(id) ==
  /\ \E k \in DOMAIN order : order[k] = id /\ order' = RemoveAt(order, k)
  /\ UNCHANGED <<nextId, wants>>

\* clear, on the teardown of the connection.
Cleared == order' = <<>> /\ UNCHANGED <<nextId, wants>>

\* Outside a dispatch.
Subscribe(f) ==
  /\ message = Nothing /\ Added(f)
  /\ UNCHANGED <<memory, message, visited, shown, atStart, called>>

Unsubscribe(id) ==
  /\ message = Nothing /\ Removed(id)
  /\ UNCHANGED <<memory, message, visited, shown, atStart, called>>

Clear ==
  /\ message = Nothing /\ order # <<>> /\ Cleared
  /\ UNCHANGED <<memory, message, visited, shown, atStart, called>>

\* dispatch begins.
Dispatch(value) ==
  /\ message = Nothing
  /\ message' = value
  /\ visited' = {} /\ called' = {}
  /\ atStart' = ToSet(order)
  /\ UNCHANGED <<registry, memory, shown>>

\* A subscription is skipped, or its callback is called; a throw is reported
\* and changes nothing here.
VisitOf(id) ==
  /\ visited' = visited \cup {id}
  /\ Remember(id)
  /\ IF Due(id)
     THEN /\ called' = called \cup {id}
          /\ shown' = [shown EXCEPT ![id] = message]
          /\ \/ UNCHANGED registry
             \/ \E f \in Filters : Added(f)
             \/ \E x \in SubscriptionIds : Removed(x)
             \/ Cleared
     ELSE UNCHANGED <<called, shown, registry>>
  /\ UNCHANGED <<message, atStart>>

\* The iterator goes on to the next subscription.
Visit ==
  /\ message # Nothing
  /\ \E k \in Pending : (\A j \in Pending : k <= j) /\ VisitOf(order[k])

DispatchEnds ==
  /\ message # Nothing /\ Pending = {}
  /\ message' = Nothing
  /\ UNCHANGED <<registry, memory, visited, shown, atStart, called>>

IntervalPasses(id) ==
  /\ message = Nothing /\ id \in waits
  /\ waits' = waits \ {id}
  /\ UNCHANGED <<registry, signature, message, visited, shown, atStart, called>>

\* boundedSet, for another stream: the entry of this one makes room.
Evict(id) ==
  /\ message = Nothing /\ Subscribed(id)
  /\ \/ signature[id] # Nothing /\ signature' = [signature EXCEPT ![id] = Nothing] /\ UNCHANGED waits
     \/ id \in waits /\ waits' = waits \ {id} /\ UNCHANGED signature
  /\ UNCHANGED <<registry, message, visited, shown, atStart, called>>

-----------------------------------------------------------------------------
Start(filters) ==
  /\ order = [i \in DOMAIN filters |-> i]
  /\ nextId = Len(filters) + 1
  /\ wants = [id \in SubscriptionIds |->
       IF id \in DOMAIN filters THEN filters[id] ELSE [limited |-> FALSE, changed |-> FALSE]]
  /\ waits = {} /\ signature = [id \in SubscriptionIds |-> Nothing]
  /\ message = Nothing
  /\ visited = {} /\ shown = [id \in SubscriptionIds |-> Nothing] /\ atStart = {} /\ called = {}

Init == Start(<<>>)

Next ==
  \/ \E f \in Filters : Subscribe(f)
  \/ \E id \in SubscriptionIds : Unsubscribe(id) \/ IntervalPasses(id) \/ Evict(id)
  \/ Clear
  \/ \E value \in Values : Dispatch(value)
  \/ Visit \/ DispatchEnds

Spec == Init /\ [][Next]_vars

\* A dispatch runs to its end; the clock goes on however often messages come,
\* so an interval passes between two of them (hence SF).
Fairness ==
  /\ WF_vars(Visit) /\ WF_vars(DispatchEnds)
  /\ \A id \in SubscriptionIds : SF_vars(IntervalPasses(id))

-----------------------------------------------------------------------------
(* Properties *)

Unrestricted(id) == ~wants[id].limited /\ ~wants[id].changed

\* A callback is called only for a subscription that still stands: what an
\* earlier callback of the same message has ended is not called any more.
NotAfterUnsubscribe ==
  [][\A id \in SubscriptionIds : id \in called' \ called /\ message' # Nothing => Subscribed(id)]_vars

\* A subscription without restrictions that stands from the start of a dispatch
\* to its end gets the message, whatever the other callbacks did meanwhile.
NobodySkipped ==
  [][DispatchEnds => \A id \in atStart : Subscribed(id) /\ Unrestricted(id) => id \in called]_vars

\* A stream that repeats one value from some time on is known by every standing
\* subscription, rate limited and changed-only ones included: the message a
\* rate limit suppressed is not taken for one that was delivered.
LatestIsSeen ==
  \A id \in SubscriptionIds, value \in Values :
    (/\ <>[](Subscribed(id) /\ message \in {value, Nothing})
     /\ []<>(message = value))
    => <>[](shown[id] = value)
=============================================================================
