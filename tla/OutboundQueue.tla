--------------------------- MODULE OutboundQueue ---------------------------
(***************************************************************************)
(* The outbound queue every send of a connection goes through              *)
(* (lib/runtime/outbound-queue.js).  One drain loop hands items to the     *)
(* transport one at a time.  A step of this module is one turn of the      *)
(* JavaScript event loop: a call from a flow, a timer or the settlement of *)
(* the transport write, together with everything that runs synchronously   *)
(* or in microtasks before the next event can be served.                   *)
(*                                                                         *)
(* Time is kept as the age of each waiting item, in clock ticks.           *)
(***************************************************************************)
EXTENDS Integers, FiniteSets

CONSTANTS Sends,        \* the sends that can be outstanding at the same time
          Keys,         \* coalesce keys (heartbeats of one identity share a key)
          NoKey,        \* an item without a coalesce key
          None,         \* no write in flight
          Priorities,   \* priority bands the producers use, 0 the most urgent
          MaxLength,    \* queue depth past which a send is refused
          AgePromotion, \* ticks of waiting that promote an item by one band
          MaxAge        \* bound: the clock stops while an item is this old

Items == [send : Sends, prio : Priorities, key : Keys \cup {NoKey}, age : Nat]

ASSUME QueueAssumption ==
  /\ None \notin Items
  /\ NoKey \notin Keys
  /\ Priorities \subseteq Nat
  /\ MaxLength \in Nat \ {0}
  /\ AgePromotion \in Nat \ {0}
  /\ MaxAge \in Nat

VARIABLES enabled,  \* FALSE: every send bypasses the queue
          queue,    \* the waiting items
          ahead,    \* <<a, b>>: send a stands before send b in the array
          inFlight, \* the item given to the writer, or None (_inFlight, _draining)
          cleared,  \* the item in flight was abandoned by clear()
          bypass,   \* sends written directly because the queue is disabled
          outcome,  \* what the promise of each send's last enqueue() did
          traced    \* sends whose onWrite hook has run

vars == <<enabled, queue, ahead, inFlight, cleared, bypass, outcome, traced>>

\* A promise resolves when its item is written, superseded or evicted; it
\* rejects on QUEUE_FULL, on QUEUE_CLEARED and when the write fails.
Outcomes == {"idle", "pending", "written", "superseded", "evicted", "rejected"}

EMERGENCY_PRIORITY == 0
NON_EMERGENCY_FLOOR == EMERGENCY_PRIORITY + 1

-----------------------------------------------------------------------------
(* Ordering *)

Promoted(item) == item.prio - (item.age \div AgePromotion)

\* Fault: no floor of its own for the non-emergency bands.
EffectivePriorityOneFloor(item) ==
  IF Promoted(item) < EMERGENCY_PRIORITY THEN EMERGENCY_PRIORITY ELSE Promoted(item)

\* _effectivePriority: one band better per AgePromotion waited, never past
\* the floor of the item's own class.
EffectivePriority(item) ==
  LET floor == IF item.prio <= EMERGENCY_PRIORITY THEN EMERGENCY_PRIORITY
                                                  ELSE NON_EMERGENCY_FLOOR
  IN  IF Promoted(item) < floor THEN floor ELSE Promoted(item)

StandsAhead(a, b) == <<a.send, b.send>> \in ahead

\* Fault: a plain stable sort.
BeforeByArrayOrder(a, b) ==
  \/ EffectivePriority(a) < EffectivePriority(b)
  \/ EffectivePriority(a) = EffectivePriority(b) /\ StandsAhead(a, b)

\* Fault: the age comparison is turned round.
BeforeNewestFirst(a, b) ==
  \/ EffectivePriority(a) < EffectivePriority(b)
  \/ /\ EffectivePriority(a) = EffectivePriority(b)
     /\ a.age < b.age \/ (a.age = b.age /\ StandsAhead(a, b))

\* The comparator of _sort; the sort is stable, so the array order decides
\* between items of the same effective priority and the same age.
Before(a, b) ==
  \/ EffectivePriority(a) < EffectivePriority(b)
  \/ /\ EffectivePriority(a) = EffectivePriority(b)
     /\ a.age > b.age \/ (a.age = b.age /\ StandsAhead(a, b))

SendsOf(items) == {i.send : i \in items}

Within(order, items) == order \cap (SendsOf(items) \X SendsOf(items))

\* The array order after a sort.
SortedOrder(items) ==
  {p \in Sends \X Sends :
     \E a, b \in items : a # b /\ Before(a, b) /\ p = <<a.send, b.send>>}

-----------------------------------------------------------------------------
(* The drain loop *)

\* One turn of the drain loop: sort, shift the head, give it to the writer;
\* or leave the loop when nothing waits.
StartNext ==
  \/ /\ queue = {}
     /\ inFlight' = None
     /\ UNCHANGED <<queue, ahead>>
  \/ \E head \in queue :
       /\ \A other \in queue \ {head} : Before(head, other)
       /\ inFlight' = head
       /\ queue' = queue \ {head}
       /\ ahead' = SortedOrder(queue \ {head})

WriteOutcome(written) == IF written THEN "written" ELSE "rejected"

\* Fault: the late settlement overrides the rejection by clear().
SettleInFlightAgain(written) ==
  [outcome EXCEPT ![inFlight.send] = WriteOutcome(written)]

\* A cleared item was rejected already; a promise settles once.
SettleInFlight(written) ==
  [outcome EXCEPT ![inFlight.send] = IF cleared THEN @ ELSE WriteOutcome(written)]

Traces(written) == written /\ ~cleared

\* The transport write of the item in flight ends.
WriteSettles(written) ==
  /\ inFlight # None
  /\ outcome' = SettleInFlight(written)
  /\ traced' = IF Traces(written) THEN traced \cup {inFlight.send} ELSE traced
  /\ cleared' = FALSE
  /\ StartNext
  /\ UNCHANGED <<enabled, bypass>>

-----------------------------------------------------------------------------
(* enqueue() *)

\* A send has settled and its slot is free for a further call.
Free(s) ==
  /\ outcome[s] # "pending"
  /\ inFlight # None => inFlight.send # s

WithKey(keys) == {i \in queue : i.key \in keys}

\* Fault: nothing is superseded.
SupersededNever(key) == {}

Superseded(key) == WithKey({key} \ {NoKey})

\* Fault: every replacement starts waiting anew.
InheritedAgeLost(superseded) == 0

\* The replacement inherits the age of the oldest item it supersedes.
InheritedAge(superseded) ==
  IF superseded = {} THEN 0
  ELSE (CHOOSE i \in superseded : \A j \in superseded : j.age <= i.age).age

\* The promises of items taken out of the queue settle.
Evicted(items, how) ==
  [s \in Sends |-> IF s \in SendsOf(items) THEN how ELSE outcome[s]]

\* The fullness check comes after coalescing.
Full(kept) == Cardinality(kept) >= MaxLength

\* The item is pushed.  When no write is in flight nothing waits, and the
\* drain loop takes the item at once.
Push(item, kept) ==
  \/ /\ inFlight # None
     /\ queue' = kept \cup {item}
     /\ ahead' = Within(ahead, kept) \cup (SendsOf(kept) \X {item.send})
     /\ UNCHANGED inFlight
  \/ /\ inFlight = None
     /\ inFlight' = item
     /\ UNCHANGED <<queue, ahead>>

Enqueue(s, prio, key) ==
  LET superseded == Superseded(key)
      kept == queue \ superseded
      item == [send |-> s, prio |-> prio, key |-> key, age |-> InheritedAge(superseded)]
      settled == Evicted(superseded, "superseded")
  IN  /\ enabled
      /\ Free(s)
      /\ traced' = traced \ {s}
      /\ \/ /\ Full(kept)
            /\ outcome' = [settled EXCEPT ![s] = "rejected"]
            /\ queue' = kept
            /\ ahead' = Within(ahead, kept)
            /\ UNCHANGED inFlight
         \/ /\ ~Full(kept)
            /\ outcome' = [settled EXCEPT ![s] = "pending"]
            /\ Push(item, kept)
      /\ UNCHANGED <<enabled, cleared, bypass>>

\* The queue is disabled: the buffer goes straight to the writer.
PassThrough(s) ==
  /\ ~enabled
  /\ Free(s)
  /\ bypass' = bypass \cup {s}
  /\ outcome' = [outcome EXCEPT ![s] = "pending"]
  /\ traced' = traced \ {s}
  /\ UNCHANGED <<enabled, queue, ahead, inFlight, cleared>>

BypassOutcome(s, written) == [outcome EXCEPT ![s] = WriteOutcome(written)]

BypassTraces(written) == written

PassThroughSettles(s, written) ==
  /\ s \in bypass
  /\ bypass' = bypass \ {s}
  /\ outcome' = BypassOutcome(s, written)
  /\ traced' = IF BypassTraces(written) THEN traced \cup {s} ELSE traced
  /\ UNCHANGED <<enabled, queue, ahead, inFlight, cleared>>

-----------------------------------------------------------------------------
(* Eviction and teardown *)

\* dropCoalesced (one key) and dropCoalescedMatching (a predicate on keys).
DropCoalescedMatching(keys) ==
  /\ WithKey(keys) # {}
  /\ queue' = queue \ WithKey(keys)
  /\ ahead' = Within(ahead, queue')
  /\ outcome' = Evicted(WithKey(keys), "evicted")
  /\ UNCHANGED <<enabled, inFlight, cleared, bypass, traced>>

\* Fault: only the waiting items are rejected.
ClearOutcomeQueuedOnly == Evicted(queue, "rejected")

ClearOutcome ==
  [Evicted(queue, "rejected") EXCEPT ![inFlight.send] = IF cleared THEN @ ELSE "rejected"]

\* The writer still owns the item in flight; only its promise is settled.
Clear ==
  /\ inFlight # None
  /\ queue' = {}
  /\ ahead' = {}
  /\ cleared' = TRUE
  /\ outcome' = ClearOutcome
  /\ UNCHANGED <<enabled, inFlight, bypass, traced>>

\* Time passes.  MaxAge bounds the ages TLC explores.
Tick ==
  /\ queue # {}
  /\ \A i \in queue : i.age < MaxAge
  /\ queue' = {[i EXCEPT !.age = @ + 1] : i \in queue}
  /\ UNCHANGED <<enabled, ahead, inFlight, cleared, bypass, outcome, traced>>

-----------------------------------------------------------------------------
Init ==
  /\ enabled \in BOOLEAN
  /\ queue = {}
  /\ ahead = {}
  /\ inFlight = None
  /\ cleared = FALSE
  /\ bypass = {}
  /\ outcome = [s \in Sends |-> "idle"]
  /\ traced = {}

Next ==
  \/ \E s \in Sends, prio \in Priorities, key \in Keys \cup {NoKey} : Enqueue(s, prio, key)
  \/ \E s \in Sends : PassThrough(s)
  \/ \E s \in Sends, written \in BOOLEAN : PassThroughSettles(s, written)
  \/ \E written \in BOOLEAN : WriteSettles(written)
  \/ \E keys \in SUBSET Keys : DropCoalescedMatching(keys)
  \/ Clear
  \/ Tick

Spec == Init /\ [][Next]_vars

\* Every transport settles a write within its deadline
\* (lib/transport/bounded-write.js), and time does not stop.
FairSpec ==
  /\ Spec
  /\ WF_vars(\E written \in BOOLEAN : WriteSettles(written))
  /\ \A s \in Sends : WF_vars(\E written \in BOOLEAN : PassThroughSettles(s, written))
  /\ WF_vars(Tick)
-----------------------------------------------------------------------------
(* Properties *)

TypeOK ==
  /\ enabled \in BOOLEAN
  /\ queue \subseteq Items
  /\ ahead \subseteq Sends \X Sends
  /\ inFlight \in Items \cup {None}
  /\ cleared \in BOOLEAN
  /\ bypass \subseteq Sends
  /\ outcome \in [Sends -> Outcomes]
  /\ traced \subseteq Sends

\* No caller is left hanging and none is answered while its frame is still to
\* be written: a promise is pending exactly while its item waits, is being
\* written without having been abandoned, or is written past the queue.
PendingIffOwned ==
  \A s \in Sends :
    outcome[s] = "pending" <=>
      \/ s \in SendsOf(queue)
      \/ inFlight # None /\ inFlight.send = s /\ ~cleared
      \/ s \in bypass

\* "a periodic producer (the 1 Hz heartbeat) can't accumulate stale copies"
\* (class comment): at most one waiting item carries a given coalesce key.
OneCopyPerKey ==
  \A i, j \in queue : i.key = j.key /\ i.key # NoKey => i = j

\* The backlog a stalled transport can build up stays within MaxLength.
BoundedBacklog == Cardinality(queue) <= MaxLength

\* onWrite runs for the sends that were written and answered as written, and
\* for no other: not for superseded, evicted, refused or torn-down ones.
TracedIffWritten == \A s \in Sends : s \in traced <=> outcome[s] = "written"

\* "No amount of aging may promote a lower-priority item into this band":
\* no write of a non-emergency item starts while an emergency item waits.
EmergencyFirst ==
  [][inFlight' # None /\ inFlight' # inFlight /\ inFlight'.prio > EMERGENCY_PRIORITY
       => \A i \in queue' : i.prio > EMERGENCY_PRIORITY]_vars

\* An item is never overtaken by a younger item of the same or a less urgent
\* band: first come, first served within a band, whatever has been promoted.
NoOvertaking ==
  [][inFlight' # None /\ inFlight' # inFlight
       => \A i \in queue' : i.prio <= inFlight'.prio => i.age <= inFlight'.age]_vars

\* A caller is told "superseded" only when an item with the same key, and with
\* at least the wait its item had accumulated, takes its place; a replacement
\* is never refused after its predecessor was dropped.
SupersededByReplacement ==
  [][\A i \in queue : outcome'[i.send] = "superseded"
       => \E j \in queue' : j.key = i.key /\ j.age >= i.age]_vars

\* The anti-starvation guarantee (class comment): as long as no emergency
\* traffic is offered, a key with a waiting item is eventually served, even
\* when its producer keeps replacing the item under a flood of other sends.
KeyServed ==
  \A k \in Keys : WithKey({k}) # {} ~> WithKey({k}) = {}

\* The queue implements the send service: promises settle once, only pending
\* ones do, and each of them settles.
PromiseOf(o) == IF o \in {"written", "superseded", "evicted"} THEN "resolved" ELSE o

Service == INSTANCE SendService WITH promise <- [s \in Sends |-> PromiseOf(outcome[s])]

ImplementsSendService == Service!FairSpec
=============================================================================
