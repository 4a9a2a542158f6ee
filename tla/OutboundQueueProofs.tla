------------------------ MODULE OutboundQueueProofs ------------------------
(***************************************************************************)
(* Proofs about OutboundQueue and the SignedLink built on it, for every    *)
(* set of sends and keys, every depth, promotion interval and choice of    *)
(* bands.                                                                  *)
(***************************************************************************)
EXTENDS SignedLink, FiniteSetTheorems, TLAPS

\* An item is in one place: once in the queue, or in flight.
OnePlace ==
  /\ \A i, j \in queue : i.send = j.send => i = j
  /\ inFlight # None => inFlight.send \notin SendsOf(queue)

\* The drain loop runs while anything waits.
WorkConserving == inFlight = None => queue = {} /\ ~cleared

\* The two modes do not mix.
OneMode ==
  /\ enabled => bypass = {}
  /\ ~enabled => inFlight = None

Bounded == IsFiniteSet(queue) /\ BoundedBacklog

Inv ==
  /\ TypeOK
  /\ OnePlace
  /\ WorkConserving
  /\ OneMode
  /\ Bounded
  /\ PendingIffOwned
  /\ OneCopyPerKey
  /\ TracedIffWritten

-----------------------------------------------------------------------------
\* The item built by enqueue() is well formed: there is at most one item to
\* supersede, so the oldest one exists.
LEMMA InheritedAgeType ==
  ASSUME TypeOK, OneCopyPerKey, NEW key \in Keys \cup {NoKey}
  PROVE  InheritedAge(Superseded(key)) \in Nat
<1> DEFINE S == Superseded(key)
<1>1. S \subseteq queue /\ \A i \in S : i.age \in Nat
  BY DEF Superseded, WithKey, TypeOK, Items
<1>2. \A i, j \in S : i = j
  BY DEF Superseded, WithKey, OneCopyPerKey
<1>3. CASE S = {}
  BY <1>3 DEF InheritedAge
<1>4. CASE S # {}
  <2>1. PICK i \in S : TRUE
    BY <1>4
  <2>2. \A j \in S : j.age <= i.age
    BY <1>1, <1>2
  <2>3. (CHOOSE x \in S : \A j \in S : j.age <= x.age) \in S
    BY <2>1, <2>2
  <2> QED
    BY <1>1, <1>4, <2>3 DEF InheritedAge
<1> QED
  BY <1>3, <1>4

\* Initially nothing waits and no promise has been made.
LEMMA InitInv == Init => Inv
<1> SUFFICES ASSUME Init PROVE Inv
  OBVIOUS
<1> USE DEF Init
<1>1. TypeOK
  BY DEF TypeOK, Outcomes
<1>2. OnePlace /\ WorkConserving /\ OneMode /\ OneCopyPerKey
  BY DEF OnePlace, WorkConserving, OneMode, OneCopyPerKey
<1>3. Bounded
  BY FS_EmptySet, QueueAssumption DEF Bounded, BoundedBacklog
<1>4. PendingIffOwned
  BY DEF PendingIffOwned, SendsOf
<1>5. TracedIffWritten
  BY DEF TracedIffWritten
<1> QED
  BY <1>1, <1>2, <1>3, <1>4, <1>5 DEF Inv

\* What a turn of the drain loop leaves: the queue loses at most the item that
\* is now in flight.
LEMMA StartNextEffect ==
  ASSUME Inv, StartNext
  PROVE  \/ queue = {} /\ queue' = {} /\ inFlight' = None /\ ahead' = ahead
         \/ /\ inFlight' \in queue /\ queue' = queue \ {inFlight'}
            /\ inFlight' # None /\ inFlight'.send \notin SendsOf(queue')
            /\ SendsOf(queue) = SendsOf(queue') \cup {inFlight'.send}
            /\ ahead' \subseteq Sends \X Sends
<1>1. CASE queue = {}
  BY <1>1 DEF StartNext
<1>2. CASE queue # {}
  <2>1. PICK head \in queue :
          /\ inFlight' = head
          /\ queue' = queue \ {head}
          /\ ahead' = SortedOrder(queue \ {head})
    BY <1>2 DEF StartNext
  <2>2. queue \subseteq Items /\ head # None
    BY QueueAssumption DEF Inv, TypeOK
  <2>3. ahead' \subseteq Sends \X Sends
    BY <2>1 DEF SortedOrder
  <2>4. head.send \notin SendsOf(queue')
    BY <2>1 DEF Inv, OnePlace, SendsOf
  <2>5. SendsOf(queue) = SendsOf(queue') \cup {head.send}
    BY <2>1 DEF SendsOf
  <2> QED
    BY <2>1, <2>2, <2>3, <2>4, <2>5
<1> QED
  BY <1>1, <1>2

\* What a turn of the drain loop keeps of the conjuncts about the queue alone.
LEMMA StartNextQueue ==
  ASSUME Inv, StartNext
  PROVE  /\ queue' \subseteq queue
         /\ inFlight' \in Items \cup {None}
         /\ ahead' \subseteq Sends \X Sends
         /\ OnePlace' /\ OneCopyPerKey' /\ Bounded'
         /\ inFlight' = None => queue' = {}
<1>1. queue' \subseteq queue
  BY StartNextEffect
<1>2. inFlight' \in Items \cup {None} /\ ahead' \subseteq Sends \X Sends
  BY StartNextEffect DEF Inv, TypeOK
<1>3. OnePlace'
  BY <1>1, StartNextEffect DEF Inv, OnePlace
<1>4. OneCopyPerKey'
  BY <1>1 DEF Inv, OneCopyPerKey
<1>5. Bounded'
  <2>1. IsFiniteSet(queue') /\ Cardinality(queue') <= Cardinality(queue)
    BY <1>1, FS_Subset DEF Inv, Bounded
  <2>2. Cardinality(queue') \in Nat /\ Cardinality(queue) \in Nat
    BY <2>1, FS_CardinalityType DEF Inv, Bounded
  <2> QED
    BY <2>1, <2>2, QueueAssumption DEF Inv, Bounded, BoundedBacklog
<1>6. inFlight' = None => queue' = {}
  BY StartNextEffect
<1> QED
  BY <1>1, <1>2, <1>3, <1>4, <1>5, <1>6

\* The end of a write keeps the invariant.
LEMMA WriteSettlesInv ==
  ASSUME Inv, NEW written \in BOOLEAN, WriteSettles(written)
  PROVE  Inv'
<1> USE DEF WriteSettles
<1> DEFINE s0 == inFlight.send
<1>1. inFlight \in Items /\ s0 \in Sends
  BY DEF Inv, TypeOK, Items
<1>2. /\ outcome' \in [Sends -> Outcomes]
      /\ \A s \in Sends : s # s0 => outcome'[s] = outcome[s]
      /\ cleared => outcome'[s0] = outcome[s0]
      /\ ~cleared => outcome'[s0] = IF written THEN "written" ELSE "rejected"
  BY <1>1 DEF Inv, TypeOK, SettleInFlight, WriteOutcome, Outcomes
<1>3. TypeOK'
  BY <1>1, <1>2, StartNextQueue DEF Inv, TypeOK, Traces
<1>4. OnePlace' /\ OneCopyPerKey' /\ Bounded' /\ WorkConserving'
  BY StartNextQueue DEF WorkConserving
<1>5. enabled /\ OneMode'
  BY DEF Inv, OneMode
<1>6. s0 \notin SendsOf(queue) /\ s0 \notin bypass
  BY <1>5 DEF Inv, OnePlace, OneMode
<1>7. outcome[s0] = "pending" <=> ~cleared
  BY <1>1, <1>6 DEF Inv, PendingIffOwned
<1>8. PendingIffOwned'
  <2> SUFFICES ASSUME NEW s \in Sends
               PROVE  outcome'[s] = "pending" <=>
                        \/ s \in SendsOf(queue')
                        \/ inFlight' # None /\ inFlight'.send = s
                        \/ s \in bypass
    BY DEF PendingIffOwned
  <2>1. s \in SendsOf(queue) <=>
          s \in SendsOf(queue') \/ (inFlight' # None /\ inFlight'.send = s)
    BY StartNextEffect DEF SendsOf
  <2>2. CASE s = s0
    BY <1>2, <1>6, <1>7, <2>1, <2>2
  <2>3. CASE s # s0
    BY <1>2, <2>1, <2>3 DEF Inv, PendingIffOwned
  <2> QED
    BY <2>2, <2>3
<1>9. TracedIffWritten'
  BY <1>1, <1>2, <1>7 DEF Inv, TracedIffWritten, Traces
<1> QED
  BY <1>3, <1>4, <1>5, <1>8, <1>9 DEF Inv

\* Removing items with a key filter keeps the conjuncts about the queue alone.
LEMMA FewerItems ==
  ASSUME Inv, NEW kept \in SUBSET queue
  PROVE  /\ kept \subseteq Items
         /\ IsFiniteSet(kept) /\ Cardinality(kept) \in Nat
         /\ Cardinality(kept) <= Cardinality(queue)
         /\ Cardinality(queue) \in Nat
         /\ Cardinality(kept) <= MaxLength
         /\ Within(ahead, kept) \subseteq Sends \X Sends
<1>1. IsFiniteSet(queue) /\ Cardinality(queue) \in Nat /\ Cardinality(queue) <= MaxLength
  BY FS_CardinalityType DEF Inv, Bounded, BoundedBacklog
<1>2. IsFiniteSet(kept) /\ Cardinality(kept) <= Cardinality(queue)
  BY <1>1, FS_Subset
<1>3. Cardinality(kept) \in Nat
  BY <1>2, FS_CardinalityType
<1>4. kept \subseteq Items /\ Within(ahead, kept) \subseteq Sends \X Sends
  BY DEF Inv, TypeOK, Within
<1> QED
  BY <1>1, <1>2, <1>3, <1>4, QueueAssumption

\* enqueue() keeps the invariant.
LEMMA EnqueueInv ==
  ASSUME Inv, NEW s \in Sends, NEW prio \in Priorities,
         NEW key \in Keys \cup {NoKey}, Enqueue(s, prio, key)
  PROVE  Inv'
<1> DEFINE superseded == Superseded(key)
           kept == queue \ superseded
           item == [send |-> s, prio |-> prio, key |-> key,
                    age |-> InheritedAge(superseded)]
           answer == IF Full(kept) THEN "rejected" ELSE "pending"
<1>1. /\ enabled /\ enabled' = enabled /\ Free(s) /\ traced' = traced \ {s}
      /\ cleared' = cleared /\ bypass' = bypass
      /\ outcome' = [Evicted(superseded, "superseded") EXCEPT ![s] = answer]
  BY DEF Enqueue
<1>2. \/ Full(kept) /\ queue' = kept /\ ahead' = Within(ahead, kept) /\ inFlight' = inFlight
      \/ ~Full(kept) /\ Push(item, kept)
  BY DEF Enqueue
<1>3. item \in Items /\ item # None /\ item.send = s
  BY InheritedAgeType, QueueAssumption DEF Inv, Items
<1>4. kept \subseteq Items /\ IsFiniteSet(kept) /\ Cardinality(kept) \in Nat
      /\ Cardinality(kept) <= MaxLength /\ Within(ahead, kept) \subseteq Sends \X Sends
  BY FewerItems
<1>5. s \notin SendsOf(queue) /\ (inFlight # None => inFlight.send # s) /\ s \notin bypass
  BY <1>1 DEF Free, Inv, PendingIffOwned
<1>6. \A i \in kept : i.key = key /\ key # NoKey => FALSE
  BY DEF Superseded, WithKey
<1>7. SendsOf(kept) \subseteq SendsOf(queue) /\ SendsOf(superseded) \subseteq SendsOf(queue)
  BY DEF SendsOf, Superseded, WithKey
<1>8. /\ outcome' \in [Sends -> Outcomes]
      /\ outcome'[s] = answer
      /\ \A t \in Sends : t # s =>
           outcome'[t] = IF t \in SendsOf(superseded) THEN "superseded" ELSE outcome[t]
  BY <1>1 DEF Evicted, Inv, TypeOK, Outcomes
<1>9. \A t \in SendsOf(queue) : t \in SendsOf(superseded) <=> t \notin SendsOf(kept)
  <2>1. superseded \subseteq queue
    BY DEF Superseded, WithKey
  <2> HIDE DEF superseded
  <2> QED
    BY <2>1 DEF SendsOf, Inv, OnePlace
<1>10. CASE Full(kept)
  <2>1. queue' = kept /\ ahead' = Within(ahead, kept) /\ inFlight' = inFlight
    BY <1>2, <1>10
  <2>2. TypeOK'
    BY <1>1, <1>4, <1>8, <2>1 DEF Inv, TypeOK
  <2>3. OnePlace' /\ OneCopyPerKey' /\ WorkConserving' /\ OneMode'
    BY <1>1, <1>7, <2>1 DEF Inv, OnePlace, OneCopyPerKey, WorkConserving, OneMode
  <2>4. Bounded'
    BY <1>4, <2>1 DEF Bounded, BoundedBacklog
  <2>5. PendingIffOwned'
    <3> SUFFICES ASSUME NEW t \in Sends
                 PROVE  outcome'[t] = "pending" <=>
                          \/ t \in SendsOf(kept)
                          \/ inFlight # None /\ inFlight.send = t /\ ~cleared
                          \/ t \in bypass
      BY <1>1, <2>1 DEF PendingIffOwned
    <3>1. CASE t = s
      BY <1>5, <1>7, <1>8, <1>10, <3>1
    <3>2. CASE t # s /\ t \in SendsOf(superseded)
      BY <1>7, <1>8, <1>9, <1>1, <3>2 DEF Inv, OnePlace, OneMode
    <3>3. CASE t # s /\ t \notin SendsOf(superseded)
      BY <1>7, <1>8, <1>9, <3>3 DEF Inv, PendingIffOwned
    <3> QED
      BY <3>1, <3>2, <3>3
  <2>6. TracedIffWritten'
    BY <1>1, <1>7, <1>8 DEF Inv, TracedIffWritten, PendingIffOwned
  <2> QED
    BY <2>2, <2>3, <2>4, <2>5, <2>6 DEF Inv
<1>11. CASE ~Full(kept) /\ inFlight # None
  <2>1. /\ queue' = kept \cup {item} /\ inFlight' = inFlight
        /\ ahead' = Within(ahead, kept) \cup (SendsOf(kept) \X {s})
    BY <1>2, <1>11 DEF Push
  <2>2. SendsOf(queue') = SendsOf(kept) \cup {s}
    <3> HIDE DEF item, kept
    <3> QED
      BY <1>3, <2>1 DEF SendsOf
  <2>3. TypeOK'
    <3>1. SendsOf(kept) \subseteq Sends
      BY <1>4 DEF SendsOf, Items
    <3> QED
      BY <1>1, <1>3, <1>4, <1>8, <2>1, <3>1 DEF Inv, TypeOK
  <2>4. OnePlace'
    BY <1>5, <1>7, <2>1, <2>2 DEF Inv, OnePlace, SendsOf
  <2>5. OneCopyPerKey'
    BY <1>6, <2>1 DEF Inv, OneCopyPerKey
  <2>6. WorkConserving' /\ OneMode'
    BY <1>1, <1>11, <2>1 DEF Inv, WorkConserving, OneMode
  <2>7. Bounded'
    <3>1. IsFiniteSet(queue') /\ Cardinality(queue') <= Cardinality(kept) + 1
      <4> HIDE DEF item, kept
      <4>1. /\ IsFiniteSet(kept \cup {item})
            /\ Cardinality(kept \cup {item}) =
                 IF item \in kept THEN Cardinality(kept) ELSE Cardinality(kept) + 1
        BY <1>4, FS_AddElement
      <4> QED
        BY <1>4, <2>1, <4>1
    <3>2. Cardinality(kept) < MaxLength
      BY <1>4, <1>11, QueueAssumption DEF Full
    <3>3. Cardinality(queue') \in Nat
      BY <3>1, FS_CardinalityType
    <3> QED
      BY <1>4, <3>1, <3>2, <3>3, QueueAssumption DEF Bounded, BoundedBacklog
  <2>8. PendingIffOwned'
    <3> SUFFICES ASSUME NEW t \in Sends
                 PROVE  outcome'[t] = "pending" <=>
                          \/ t \in SendsOf(kept) \cup {s}
                          \/ inFlight # None /\ inFlight.send = t /\ ~cleared
                          \/ t \in bypass
      BY <1>1, <2>1, <2>2 DEF PendingIffOwned
    <3>1. CASE t = s
      BY <1>8, <1>11, <3>1
    <3>2. CASE t # s /\ t \in SendsOf(superseded)
      BY <1>7, <1>8, <1>9, <1>1, <3>2 DEF Inv, OnePlace, OneMode
    <3>3. CASE t # s /\ t \notin SendsOf(superseded)
      BY <1>7, <1>8, <1>9, <3>3 DEF Inv, PendingIffOwned
    <3> QED
      BY <3>1, <3>2, <3>3
  <2>9. TracedIffWritten'
    BY <1>1, <1>7, <1>8 DEF Inv, TracedIffWritten, PendingIffOwned
  <2> QED
    BY <2>3, <2>4, <2>5, <2>6, <2>7, <2>8, <2>9 DEF Inv
<1>12. CASE ~Full(kept) /\ inFlight = None
  <2>1. inFlight' = item /\ queue' = queue /\ ahead' = ahead
    BY <1>2, <1>12 DEF Push
  <2>2. queue = {} /\ superseded = {} /\ SendsOf(queue) = {} /\ SendsOf(superseded) = {} /\ ~cleared
    BY <1>12 DEF Inv, WorkConserving, Superseded, WithKey, SendsOf
  <2>3. TypeOK' /\ Bounded'
    BY <1>1, <1>3, <1>8, <2>1 DEF Inv, TypeOK, Bounded, BoundedBacklog
  <2>4. OnePlace' /\ OneCopyPerKey' /\ WorkConserving' /\ OneMode'
    BY <1>1, <1>3, <2>1, <2>2
    DEF Inv, OnePlace, OneCopyPerKey, WorkConserving, OneMode, SendsOf
  <2>5. PendingIffOwned'
    <3> SUFFICES ASSUME NEW t \in Sends
                 PROVE  outcome'[t] = "pending" <=> t = s \/ t \in bypass
      BY <1>1, <1>3, <2>1, <2>2 DEF PendingIffOwned
    <3> QED
      BY <1>8, <1>12, <2>2 DEF Inv, PendingIffOwned
  <2>6. TracedIffWritten'
    BY <1>1, <1>7, <1>8, <2>2 DEF Inv, TracedIffWritten
  <2> QED
    BY <2>3, <2>4, <2>5, <2>6 DEF Inv
<1> QED
  BY <1>10, <1>11, <1>12

\* A write past the queue keeps the invariant.
LEMMA PassThroughInv ==
  ASSUME Inv, NEW s \in Sends, PassThrough(s)
  PROVE  Inv'
<1> USE DEF PassThrough
<1>1. /\ outcome' \in [Sends -> Outcomes] /\ outcome'[s] = "pending"
      /\ \A t \in Sends : t # s => outcome'[t] = outcome[t]
  BY DEF Inv, TypeOK, Outcomes
<1>2. TypeOK'
  BY <1>1 DEF Inv, TypeOK
<1>3. OnePlace' /\ OneCopyPerKey' /\ WorkConserving' /\ OneMode' /\ Bounded'
  BY DEF Inv, OnePlace, OneCopyPerKey, WorkConserving, OneMode, Bounded, BoundedBacklog
<1>4. PendingIffOwned'
  BY <1>1 DEF Inv, PendingIffOwned
<1>5. TracedIffWritten'
  BY <1>1 DEF Inv, TracedIffWritten
<1> QED
  BY <1>2, <1>3, <1>4, <1>5 DEF Inv

\* The end of a write past the queue keeps the invariant.
LEMMA PassThroughSettlesInv ==
  ASSUME Inv, NEW s \in Sends, NEW written \in BOOLEAN, PassThroughSettles(s, written)
  PROVE  Inv'
<1> USE DEF PassThroughSettles, BypassOutcome, BypassTraces
<1>1. /\ outcome' \in [Sends -> Outcomes]
      /\ outcome'[s] = IF written THEN "written" ELSE "rejected"
      /\ \A t \in Sends : t # s => outcome'[t] = outcome[t]
  BY DEF Inv, TypeOK, Outcomes, WriteOutcome
<1>2. TypeOK'
  BY <1>1 DEF Inv, TypeOK
<1>3. OnePlace' /\ OneCopyPerKey' /\ WorkConserving' /\ OneMode' /\ Bounded'
  BY DEF Inv, OnePlace, OneCopyPerKey, WorkConserving, OneMode, Bounded, BoundedBacklog
<1>4. inFlight = None /\ SendsOf(queue) = {} /\ outcome[s] = "pending"
  BY DEF Inv, OneMode, WorkConserving, SendsOf, PendingIffOwned
<1>5. PendingIffOwned'
  BY <1>1, <1>4 DEF Inv, PendingIffOwned
<1>6. TracedIffWritten'
  BY <1>1, <1>4 DEF Inv, TracedIffWritten
<1> QED
  BY <1>2, <1>3, <1>5, <1>6 DEF Inv

\* Evicting items from the queue keeps the invariant.
LEMMA DropCoalescedMatchingInv ==
  ASSUME Inv, NEW keys \in SUBSET Keys, DropCoalescedMatching(keys)
  PROVE  Inv'
<1> DEFINE gone == WithKey(keys)
           kept == queue \ gone
<1>1. gone \subseteq queue
  BY DEF WithKey
<1>2. /\ queue' = kept /\ ahead' = Within(ahead, kept)
      /\ outcome' = Evicted(gone, "evicted")
      /\ UNCHANGED <<enabled, inFlight, cleared, bypass, traced>>
  BY DEF DropCoalescedMatching
<1> HIDE DEF gone
<1>3. SendsOf(kept) \subseteq SendsOf(queue) /\ SendsOf(gone) \subseteq SendsOf(queue)
  BY <1>1 DEF SendsOf
<1>4. \A t \in SendsOf(queue) : t \in SendsOf(gone) <=> t \notin SendsOf(kept)
  BY <1>1 DEF SendsOf, Inv, OnePlace
<1>5. /\ outcome' \in [Sends -> Outcomes]
      /\ \A t \in Sends :
           outcome'[t] = IF t \in SendsOf(gone) THEN "evicted" ELSE outcome[t]
  BY <1>2 DEF Evicted, Inv, TypeOK, Outcomes
<1>6. TypeOK' /\ Bounded'
  <2>1. /\ kept \subseteq Items /\ IsFiniteSet(kept) /\ Cardinality(kept) <= MaxLength
        /\ Within(ahead, kept) \subseteq Sends \X Sends
    BY FewerItems
  <2> QED
    BY <1>2, <1>5, <2>1 DEF Inv, TypeOK, Bounded, BoundedBacklog
<1>7. OnePlace' /\ OneCopyPerKey' /\ WorkConserving' /\ OneMode'
  BY <1>2, <1>3 DEF Inv, OnePlace, OneCopyPerKey, WorkConserving, OneMode
<1>8. PendingIffOwned'
  <2> SUFFICES ASSUME NEW t \in Sends
               PROVE  outcome'[t] = "pending" <=>
                        \/ t \in SendsOf(kept)
                        \/ inFlight # None /\ inFlight.send = t /\ ~cleared
                        \/ t \in bypass
    BY <1>2 DEF PendingIffOwned
  <2>1. CASE t \in SendsOf(gone)
    <3>1. queue # {} /\ inFlight # None /\ inFlight.send # t /\ bypass = {}
      BY <1>3, <2>1 DEF Inv, OnePlace, OneMode, WorkConserving, SendsOf
    <3> QED
      BY <1>3, <1>4, <1>5, <2>1, <3>1
  <2>2. CASE t \notin SendsOf(gone)
    BY <1>3, <1>4, <1>5, <2>2 DEF Inv, PendingIffOwned
  <2> QED
    BY <2>1, <2>2
<1>9. TracedIffWritten'
  BY <1>2, <1>3, <1>5 DEF Inv, TracedIffWritten, PendingIffOwned
<1> QED
  BY <1>6, <1>7, <1>8, <1>9 DEF Inv

\* clear() keeps the invariant.
LEMMA ClearInv ==
  ASSUME Inv, Clear
  PROVE  Inv'
<1> USE DEF Clear
<1> DEFINE s0 == inFlight.send
<1>1. s0 \in Sends /\ s0 \notin SendsOf(queue) /\ bypass = {}
  BY DEF Inv, TypeOK, Items, OnePlace, OneMode
<1>2. /\ outcome' \in [Sends -> Outcomes]
      /\ \A t \in Sends :
           outcome'[t] = IF t \in SendsOf(queue) \/ (t = s0 /\ ~cleared)
                         THEN "rejected" ELSE outcome[t]
  BY <1>1 DEF ClearOutcome, Evicted, Inv, TypeOK, Outcomes
<1>3. TypeOK'
  BY <1>2 DEF Inv, TypeOK
<1>4. OnePlace' /\ OneCopyPerKey' /\ WorkConserving' /\ OneMode'
  BY DEF Inv, OnePlace, OneCopyPerKey, WorkConserving, OneMode, SendsOf
<1>5. Bounded'
  BY FS_EmptySet, QueueAssumption DEF Bounded, BoundedBacklog
<1>6. PendingIffOwned'
  BY <1>1, <1>2 DEF Inv, PendingIffOwned, SendsOf
<1>7. TracedIffWritten'
  BY <1>1, <1>2 DEF Inv, TracedIffWritten, PendingIffOwned
<1> QED
  BY <1>3, <1>4, <1>5, <1>6, <1>7 DEF Inv

\* The passing of time keeps the invariant: every item stays, one tick older.
LEMMA TickInv ==
  ASSUME Inv, Tick
  PROVE  Inv'
<1> USE DEF Tick
<1> DEFINE older(i) == [i EXCEPT !.age = @ + 1]
<1>1. \A i \in queue : older(i) \in Items /\ older(i).send = i.send /\ older(i).key = i.key
  BY DEF Inv, TypeOK, Items
<1>2. queue' = {older(i) : i \in queue}
  OBVIOUS
<1> HIDE DEF older
<1>3. SendsOf(queue') = SendsOf(queue)
  BY <1>1, <1>2 DEF SendsOf
<1>4. TypeOK'
  BY <1>1, <1>2 DEF Inv, TypeOK
<1>5. OnePlace' /\ OneCopyPerKey'
  BY <1>1, <1>2, <1>3 DEF Inv, OnePlace, OneCopyPerKey
<1>6. WorkConserving' /\ OneMode'
  BY DEF Inv, WorkConserving, OneMode
<1>7. Bounded'
  <2> DEFINE f == [i \in queue |-> older(i)]
  <2>1. f \in Surjection(queue, queue')
    BY <1>2 DEF Surjection
  <2>2. IsFiniteSet(queue') /\ Cardinality(queue') <= Cardinality(queue)
    BY <2>1, FS_Surjection DEF Inv, Bounded
  <2>3. Cardinality(queue') \in Nat /\ Cardinality(queue) \in Nat
    BY <2>2, FS_CardinalityType DEF Inv, Bounded
  <2> QED
    BY <2>2, <2>3, QueueAssumption DEF Inv, Bounded, BoundedBacklog
<1>8. PendingIffOwned' /\ TracedIffWritten'
  BY <1>3 DEF Inv, PendingIffOwned, TracedIffWritten
<1> QED
  BY <1>4, <1>5, <1>6, <1>7, <1>8 DEF Inv

-----------------------------------------------------------------------------
\* The invariant is inductive.
LEMMA NextInv == Inv /\ [Next]_vars => Inv'
<1> SUFFICES ASSUME Inv, [Next]_vars PROVE Inv'
  OBVIOUS
<1>1. ASSUME NEW s \in Sends, NEW prio \in Priorities, NEW key \in Keys \cup {NoKey},
             Enqueue(s, prio, key)
      PROVE  Inv'
  BY <1>1, EnqueueInv
<1>2. ASSUME NEW s \in Sends, PassThrough(s) PROVE Inv'
  BY <1>2, PassThroughInv
<1>3. ASSUME NEW s \in Sends, NEW written \in BOOLEAN, PassThroughSettles(s, written)
      PROVE  Inv'
  BY <1>3, PassThroughSettlesInv
<1>4. ASSUME NEW written \in BOOLEAN, WriteSettles(written) PROVE Inv'
  BY <1>4, WriteSettlesInv
<1>5. ASSUME NEW keys \in SUBSET Keys, DropCoalescedMatching(keys) PROVE Inv'
  BY <1>5, DropCoalescedMatchingInv
<1>6. CASE Clear
  BY <1>6, ClearInv
<1>7. CASE Tick
  BY <1>7, TickInv
<1>8. CASE UNCHANGED vars
  BY <1>8 DEF vars, Inv, TypeOK, OnePlace, WorkConserving, OneMode, Bounded, BoundedBacklog,
              PendingIffOwned, OneCopyPerKey, TracedIffWritten
<1> QED
  BY <1>1, <1>2, <1>3, <1>4, <1>5, <1>6, <1>7, <1>8 DEF Next

\* The invariant holds in every reachable state.
THEOREM Invariance == Spec => []Inv
  BY InitInv, NextInv, PTL DEF Spec

\* Type correctness of the queue.
THEOREM TypeCorrectness == Spec => []TypeOK
<1>1. Inv => TypeOK
  BY DEF Inv
<1> QED
  BY <1>1, Invariance, PTL

\* Every promise is pending exactly while its send is owned by the queue: no
\* teardown, eviction or refusal leaves a caller waiting.
THEOREM NoCallerForgotten == Spec => []PendingIffOwned
<1>1. Inv => PendingIffOwned
  BY DEF Inv
<1> QED
  BY <1>1, Invariance, PTL

\* A periodic producer never has two copies waiting.
THEOREM NoStaleCopies == Spec => []OneCopyPerKey
<1>1. Inv => OneCopyPerKey
  BY DEF Inv
<1> QED
  BY <1>1, Invariance, PTL

\* The backlog never exceeds the configured depth.
THEOREM BacklogBounded == Spec => []BoundedBacklog
<1>1. Inv => BoundedBacklog
  BY DEF Inv, Bounded
<1> QED
  BY <1>1, Invariance, PTL

\* The debug trace is truthful: exactly the sends that were written.
THEOREM TraceTruthful == Spec => []TracedIffWritten
<1>1. Inv => TracedIffWritten
  BY DEF Inv
<1> QED
  BY <1>1, Invariance, PTL

-----------------------------------------------------------------------------
\* A write starts only in the two steps that hand an item to the writer.
LEMMA WhoStarts ==
  ASSUME Inv, [Next]_vars, inFlight' # None, inFlight' # inFlight
  PROVE  \/ StartNext
         \/ inFlight = None /\ queue' = {}
<1>1. ASSUME NEW s \in Sends, NEW prio \in Priorities, NEW key \in Keys \cup {NoKey},
             Enqueue(s, prio, key)
      PROVE  inFlight = None /\ queue' = {}
  BY <1>1 DEF Enqueue, Push, Inv, WorkConserving
<1>2. ASSUME NEW written \in BOOLEAN, WriteSettles(written)
      PROVE  StartNext
  BY <1>2 DEF WriteSettles
<1> QED
  BY <1>1, <1>2 DEF Next, PassThrough, PassThroughSettles, DropCoalescedMatching, Clear,
                    Tick, vars

\* The head the drain loop takes stands before every item left in the queue.
LEMMA HeadFirst ==
  ASSUME Inv, StartNext, inFlight' # None
  PROVE  \A i \in queue' : i \in queue /\ Before(inFlight', i)
<1>1. PICK head \in queue :
        /\ \A other \in queue \ {head} : Before(head, other)
        /\ inFlight' = head /\ queue' = queue \ {head}
  BY DEF StartNext
<1> QED
  BY <1>1

\* Division of naturals.
LEMMA DivIsNatural ==
  ASSUME NEW n \in Nat, NEW d \in Nat \ {0}
  PROVE  n \div d \in Nat
<1>1. n = d * (n \div d) + (n % d) /\ n % d \in 0..(d - 1)
  OBVIOUS
<1>2. n \div d \in Int
  OBVIOUS
<1> QED
  BY <1>1, <1>2

\* Aging is a number of bands.
LEMMA PromotionIsNatural ==
  ASSUME NEW i \in Items
  PROVE  /\ i.age \div AgePromotion \in Nat
         /\ i.prio \in Nat /\ i.age \in Nat
         /\ Promoted(i) \in Int /\ EffectivePriority(i) \in Int
<1>1. i.prio \in Nat /\ i.age \in Nat
  <2>1. i.prio \in Priorities /\ i.age \in Nat
    BY DEF Items
  <2> QED
    BY <2>1, QueueAssumption
<1>2. i.age \div AgePromotion \in Nat
  BY <1>1, DivIsNatural, QueueAssumption
<1> QED
  BY <1>1, <1>2 DEF Promoted, EffectivePriority, EMERGENCY_PRIORITY, NON_EMERGENCY_FLOOR

\* No amount of aging lets a write of a lower band start before a waiting
\* emergency send.
THEOREM EmergencyNeverOvertaken == Spec => EmergencyFirst
<1> DEFINE Holds ==
      inFlight' # None /\ inFlight' # inFlight /\ inFlight'.prio > EMERGENCY_PRIORITY
        => \A i \in queue' : i.prio > EMERGENCY_PRIORITY
<1>1. Inv /\ [Next]_vars => [Holds]_vars
  <2> SUFFICES ASSUME Inv, [Next]_vars, inFlight' # None, inFlight' # inFlight,
                      inFlight'.prio > EMERGENCY_PRIORITY, NEW i \in queue'
               PROVE  i.prio > EMERGENCY_PRIORITY
    OBVIOUS
  <2>1. StartNext
    BY WhoStarts
  <2>2. i \in Items /\ inFlight' \in Items /\ Before(inFlight', i)
    BY <2>1, HeadFirst, StartNextQueue DEF Inv, TypeOK
  <2>3. EffectivePriority(inFlight') <= EffectivePriority(i)
    BY <2>2, PromotionIsNatural DEF Before
  <2>4. EffectivePriority(inFlight') >= NON_EMERGENCY_FLOOR
    BY <2>2, PromotionIsNatural DEF EffectivePriority, EMERGENCY_PRIORITY, NON_EMERGENCY_FLOOR
  <2>5. i.prio <= EMERGENCY_PRIORITY => EffectivePriority(i) = EMERGENCY_PRIORITY
    BY <2>2, PromotionIsNatural
    DEF EffectivePriority, Promoted, EMERGENCY_PRIORITY, NON_EMERGENCY_FLOOR
  <2> QED
    BY <2>2, <2>3, <2>4, <2>5, PromotionIsNatural DEF EMERGENCY_PRIORITY, NON_EMERGENCY_FLOOR
<1> QED
  BY <1>1, Invariance, PTL DEF Spec, EmergencyFirst

\* Division by a positive number is monotonic.
LEMMA DivMonotonic ==
  ASSUME NEW m \in Nat, NEW n \in Nat, NEW d \in Nat \ {0}, m <= n
  PROVE  m \div d <= n \div d
<1> DEFINE p == m \div d
           q == n \div d
<1>1. /\ m = d * p + (m % d) /\ m % d \in 0..(d - 1)
      /\ n = d * q + (n % d) /\ n % d \in 0..(d - 1)
  OBVIOUS
<1>2. p \in Nat /\ q \in Nat
  BY DivIsNatural
<1> HIDE DEF p, q
<1>3. SUFFICES ASSUME p > q PROVE FALSE
  BY <1>2 DEF p, q
<1>4. p - q - 1 \in Nat
  BY <1>2, <1>3
<1>5. d * p = d * q + d + d * (p - q - 1)
  BY <1>2, <1>4
<1>6. d * (p - q - 1) \in Nat /\ d * p \in Nat /\ d * q \in Nat
  BY <1>2, <1>4
<1> QED
  BY <1>1, <1>5, <1>6

\* Within a band, and with respect to less urgent bands, the older item goes
\* first, whatever has been promoted.
THEOREM FirstComeFirstServed == Spec => NoOvertaking
<1> DEFINE Holds ==
      inFlight' # None /\ inFlight' # inFlight
        => \A i \in queue' : i.prio <= inFlight'.prio => i.age <= inFlight'.age
<1>1. Inv /\ [Next]_vars => [Holds]_vars
  <2> SUFFICES ASSUME Inv, [Next]_vars, inFlight' # None, inFlight' # inFlight,
                      NEW i \in queue', i.prio <= inFlight'.prio, i.age > inFlight'.age
               PROVE  FALSE
    <3> SUFFICES ASSUME Inv, [Next]_vars PROVE Holds
      OBVIOUS
    <3>1. queue' \subseteq Items /\ inFlight' \in Items \cup {None}
      BY NextInv DEF Inv, TypeOK
    <3>2. \A j \in queue' : j.age \in Nat
      BY <3>1 DEF Items
    <3>3. inFlight' # None => inFlight'.age \in Nat
      BY <3>1 DEF Items
    <3> QED
      BY <3>2, <3>3
  <2>1. StartNext
    BY WhoStarts
  <2>2. i \in Items /\ inFlight' \in Items /\ Before(inFlight', i)
    BY <2>1, HeadFirst, StartNextQueue DEF Inv, TypeOK
  <2>3. inFlight'.age \div AgePromotion <= i.age \div AgePromotion
    BY <2>2, PromotionIsNatural, DivMonotonic, QueueAssumption
  <2>4. Promoted(i) <= Promoted(inFlight')
    BY <2>2, <2>3, PromotionIsNatural DEF Promoted
  <2>5. EffectivePriority(i) <= EffectivePriority(inFlight')
    BY <2>2, <2>4, PromotionIsNatural
    DEF EffectivePriority, EMERGENCY_PRIORITY, NON_EMERGENCY_FLOOR
  <2> QED
    BY <2>2, <2>5, PromotionIsNatural DEF Before
<1> QED
  BY <1>1, Invariance, PTL DEF Spec, NoOvertaking

\* A caller is told "superseded" only when an item of the same key, at least as
\* old, waits in its place.
THEOREM SupersedingKeepsAge == Spec => SupersededByReplacement
<1> DEFINE Holds ==
      \A i \in queue : outcome'[i.send] = "superseded"
        => \E j \in queue' : j.key = i.key /\ j.age >= i.age
<1>1. Inv /\ [Next]_vars => [Holds]_vars
  <2> SUFFICES ASSUME Inv, [Next]_vars, NEW i \in queue, outcome'[i.send] = "superseded"
               PROVE  \E j \in queue' : j.key = i.key /\ j.age >= i.age
    OBVIOUS
  <2>1. i \in Items /\ i.send \in Sends /\ i.age \in Nat
        /\ outcome[i.send] = "pending" /\ (inFlight # None => inFlight.send # i.send)
        /\ inFlight # None
    BY DEF Inv, TypeOK, Items, PendingIffOwned, OnePlace, SendsOf, WorkConserving
  <2>2. ASSUME NEW s \in Sends, NEW prio \in Priorities, NEW key \in Keys \cup {NoKey},
               Enqueue(s, prio, key)
        PROVE  \E j \in queue' : j.key = i.key /\ j.age >= i.age
    <3> DEFINE superseded == Superseded(key)
               kept == queue \ superseded
               item == [send |-> s, prio |-> prio, key |-> key,
                        age |-> InheritedAge(superseded)]
    <3>1. s # i.send /\ outcome' \in [Sends -> Outcomes]
      BY <2>1, <2>2, NextInv DEF Enqueue, Free, Inv, TypeOK
    <3>2. outcome'[i.send] = Evicted(superseded, "superseded")[i.send]
      BY <2>1, <2>2, <3>1 DEF Enqueue, Evicted
    <3>3. i.send \in SendsOf(superseded)
      BY <2>1, <3>2 DEF Evicted
    <3>4. superseded \subseteq queue /\ \A j \in superseded : j.key = key /\ key # NoKey
      BY DEF Superseded, WithKey
    <3>5. i \in superseded /\ superseded = {i}
      <4> HIDE DEF superseded
      <4> QED
        BY <3>3, <3>4 DEF SendsOf, Inv, OnePlace, OneCopyPerKey
    <3>6. InheritedAge(superseded) = i.age
      <4>1. i.age <= i.age
        BY <2>1
      <4> QED
        BY <3>5, <4>1 DEF InheritedAge
    <3>7. ~Full(kept)
      <4>1. IsFiniteSet(queue) /\ Cardinality(queue) \in Nat /\ Cardinality(queue) <= MaxLength
        BY FS_CardinalityType DEF Inv, Bounded, BoundedBacklog
      <4>2. Cardinality(queue \ {i}) = Cardinality(queue) - 1
        BY <2>1, <4>1, FS_RemoveElement, Zenon
      <4>3. kept = queue \ {i}
        BY <3>5
      <4> QED
        BY <4>1, <4>2, <4>3, QueueAssumption DEF Full
    <3>8. item \in queue'
      BY <2>1, <2>2, <3>7 DEF Enqueue, Push
    <3> QED
      BY <2>1, <3>4, <3>5, <3>6, <3>8
  <2>3. ASSUME NEW written \in BOOLEAN, WriteSettles(written) PROVE FALSE
    BY <2>1, <2>3 DEF WriteSettles, SettleInFlight, WriteOutcome, Inv, TypeOK, Items
  <2>4. ASSUME NEW s \in Sends, PassThrough(s) PROVE FALSE
    BY <2>1, <2>4 DEF PassThrough, Inv, OneMode
  <2>5. ASSUME NEW s \in Sends, NEW written \in BOOLEAN, PassThroughSettles(s, written)
        PROVE  FALSE
    BY <2>1, <2>5 DEF PassThroughSettles, BypassOutcome, BypassTraces, Inv, OneMode
  <2>6. ASSUME NEW keys \in SUBSET Keys, DropCoalescedMatching(keys) PROVE FALSE
    BY <2>1, <2>6 DEF DropCoalescedMatching, Evicted
  <2>7. ASSUME Clear PROVE FALSE
    BY <2>1, <2>7 DEF Clear, ClearOutcome, Evicted, Inv, TypeOK, Items
  <2>8. ASSUME Tick \/ UNCHANGED vars PROVE FALSE
    BY <2>1, <2>8 DEF Tick, vars
  <2> QED
    BY <2>2, <2>3, <2>4, <2>5, <2>6, <2>7, <2>8 DEF Next
<1> QED
  BY <1>1, Invariance, PTL DEF Spec, SupersededByReplacement

-----------------------------------------------------------------------------
\* The promises as the send service sees them.
Promise == [s \in Sends |-> PromiseOf(outcome[s])]

\* Only a pending outcome is a pending promise.
LEMMA PendingPromise ==
  ASSUME TypeOK
  PROVE  Service!Pending = {s \in Sends : outcome[s] = "pending"}
  BY DEF Service!Pending, PromiseOf, TypeOK, Outcomes

\* Settling pending sends alike is a Settle step of the service, or no step
\* when there is none.
LEMMA SettlesAlike ==
  ASSUME TypeOK, NEW settled \in SUBSET Sends, NEW how \in Outcomes \ {"idle", "pending"},
         settled \subseteq Service!Pending,
         outcome' = [s \in Sends |-> IF s \in settled THEN how ELSE outcome[s]]
  PROVE  Service!Next \/ Promise' = Promise
<1>1. PromiseOf(how) \in {"resolved", "rejected"}
  BY DEF PromiseOf, Outcomes
<1>2. Promise' = [s \in Sends |-> IF s \in settled THEN PromiseOf(how) ELSE Promise[s]]
  BY DEF Promise
<1>3. CASE settled = {}
  BY <1>2, <1>3 DEF Promise
<1>4. CASE settled # {}
  BY <1>1, <1>2, <1>4 DEF Promise, Service!Settle, Service!Next
<1> QED
  BY <1>3, <1>4

\* The queue implements the safety part of the send service: a promise settles
\* once, and a settled one changes only with a new call.
THEOREM ImplementsServiceSafety == Spec => Service!Spec
<1>1. Init => Service!Init
  BY DEF Init, Service!Init, PromiseOf
<1>2. Inv /\ [Next]_vars => [Service!Next]_Promise
  <2> SUFFICES ASSUME Inv, [Next]_vars PROVE Service!Next \/ Promise' = Promise
    OBVIOUS
  <2> TypeOK
    BY DEF Inv
  <2>1. ASSUME NEW s \in Sends, NEW prio \in Priorities, NEW key \in Keys \cup {NoKey},
               Enqueue(s, prio, key)
        PROVE  Service!Next
    <3> DEFINE dropped == SendsOf(Superseded(key))
               answer == IF Full(queue \ Superseded(key)) THEN "rejected" ELSE "pending"
    <3>1. outcome' = [Evicted(Superseded(key), "superseded") EXCEPT ![s] = answer]
      BY <2>1 DEF Enqueue
    <3>2. s \notin Service!Pending
      BY <2>1, PendingPromise DEF Enqueue, Free
    <3>3. dropped \subseteq Service!Pending
      BY PendingPromise DEF SendsOf, Superseded, WithKey, Inv, PendingIffOwned, TypeOK, Items
    <3> HIDE DEF answer, dropped
    <3>4. answer \in {"pending", "rejected"}
      BY DEF answer
    <3>5. outcome' = [x \in Sends |-> IF x = s THEN answer
                                      ELSE IF x \in dropped THEN "superseded" ELSE outcome[x]]
      BY <3>1 DEF Evicted, dropped
    <3>6. Promise' = [x \in Sends |-> IF x = s THEN answer
                                      ELSE IF x \in dropped THEN "resolved" ELSE Promise[x]]
      BY <3>4, <3>5 DEF Promise, PromiseOf
    <3> QED
      BY <3>2, <3>3, <3>4, <3>6 DEF Promise, Service!Issue, Service!Next
  <2>2. ASSUME NEW s \in Sends, PassThrough(s)
        PROVE  Service!Next
    <3>1. s \notin Service!Pending
      BY <2>2, PendingPromise DEF PassThrough, Free
    <3>2. Promise' = [x \in Sends |-> IF x = s THEN "pending"
                                      ELSE IF x \in {} THEN "resolved" ELSE Promise[x]]
      BY <2>2 DEF PassThrough, Promise, PromiseOf, TypeOK
    <3>3. {} \in SUBSET Service!Pending /\ "pending" \in {"pending", "rejected"}
      OBVIOUS
    <3>4. \E superseded \in SUBSET Service!Pending, answer \in {"pending", "rejected"} :
            Promise' = [x \in Sends |-> IF x = s THEN answer
                                        ELSE IF x \in superseded THEN "resolved" ELSE Promise[x]]
      BY <3>2, <3>3
    <3> QED
      BY <3>1, <3>4 DEF Promise, Service!Issue, Service!Next
  <2>3. ASSUME NEW s \in Sends, NEW written \in BOOLEAN, PassThroughSettles(s, written)
        PROVE  Service!Next \/ Promise' = Promise
    <3>1. {s} \subseteq Service!Pending
      BY <2>3, PendingPromise DEF PassThroughSettles, BypassOutcome, Inv, PendingIffOwned
    <3>2. outcome' = [x \in Sends |-> IF x \in {s} THEN WriteOutcome(written) ELSE outcome[x]]
      BY <2>3 DEF PassThroughSettles, BypassOutcome, TypeOK
    <3>3. WriteOutcome(written) \in Outcomes \ {"idle", "pending"}
      BY DEF WriteOutcome, Outcomes
    <3> QED
      BY <3>1, <3>2, <3>3, SettlesAlike
  <2>4. ASSUME NEW written \in BOOLEAN, WriteSettles(written)
        PROVE  Service!Next \/ Promise' = Promise
    <3> DEFINE settled == IF cleared THEN {} ELSE {inFlight.send}
    <3>1. inFlight \in Items /\ inFlight.send \in Sends
      BY <2>4 DEF WriteSettles, TypeOK, Items
    <3>2. settled \subseteq Service!Pending /\ settled \in SUBSET Sends
      BY <2>4, <3>1, PendingPromise DEF WriteSettles, Inv, PendingIffOwned
    <3>3. outcome' = [x \in Sends |-> IF x \in settled THEN WriteOutcome(written)
                                                       ELSE outcome[x]]
      BY <2>4, <3>1 DEF WriteSettles, SettleInFlight, TypeOK
    <3>4. WriteOutcome(written) \in Outcomes \ {"idle", "pending"}
      BY DEF WriteOutcome, Outcomes
    <3> QED
      BY <3>2, <3>3, <3>4, SettlesAlike
  <2>5. ASSUME NEW keys \in SUBSET Keys, DropCoalescedMatching(keys)
        PROVE  Service!Next \/ Promise' = Promise
    <3> DEFINE settled == SendsOf(WithKey(keys))
    <3>1. settled \subseteq Service!Pending /\ settled \in SUBSET Sends
      BY PendingPromise DEF SendsOf, WithKey, Inv, PendingIffOwned, TypeOK, Items
    <3>2. outcome' = [x \in Sends |-> IF x \in settled THEN "evicted" ELSE outcome[x]]
      BY <2>5 DEF DropCoalescedMatching, Evicted
    <3>3. "evicted" \in Outcomes \ {"idle", "pending"}
      BY DEF Outcomes
    <3> QED
      BY <3>1, <3>2, <3>3, SettlesAlike
  <2>6. CASE Clear
    <3> DEFINE settled == SendsOf(queue) \cup (IF cleared THEN {} ELSE {inFlight.send})
    <3>1. inFlight \in Items /\ inFlight.send \in Sends /\ inFlight.send \notin SendsOf(queue)
      BY <2>6 DEF Clear, Inv, OnePlace, TypeOK, Items
    <3>2. settled \subseteq Service!Pending /\ settled \in SUBSET Sends
      <4>1. SendsOf(queue) \subseteq Sends
        BY DEF SendsOf, TypeOK, Items
      <4>2. \A x \in settled : x \in Sends /\ outcome[x] = "pending"
        BY <2>6, <3>1, <4>1 DEF Clear, Inv, PendingIffOwned
      <4> QED
        BY <4>2, PendingPromise
    <3>3. outcome' = [x \in Sends |-> IF x \in settled THEN "rejected" ELSE outcome[x]]
      BY <2>6, <3>1 DEF Clear, ClearOutcome, Evicted, TypeOK
    <3>4. "rejected" \in Outcomes \ {"idle", "pending"}
      BY DEF Outcomes
    <3> QED
      BY <3>2, <3>3, <3>4, SettlesAlike
  <2>7. CASE Tick \/ UNCHANGED vars
    BY <2>7 DEF Tick, vars, Promise
  <2> QED
    BY <2>1, <2>2, <2>3, <2>4, <2>5, <2>6, <2>7 DEF Next
<1> QED
  BY <1>1, <1>2, Invariance, PTL DEF Spec, Service!Spec, Promise

-----------------------------------------------------------------------------
(* A signed link: SignedLink extends the queue, and its frames carry the    *)
(* order in which they were signed through the reordering.                  *)

Owned == queue \cup ({inFlight} \ {None})

\* Timestamps are handed out in order, and only what was handed out arrives.
StampsGiven ==
  /\ lastStamp \in Nat /\ stamp \in [Sends -> Nat] /\ accepted \subseteq Nat
  /\ \A s \in Sends : stamp[s] <= lastStamp
  /\ \A t \in accepted : t <= lastStamp

\* Frames under way have timestamps of their own that the peer has not seen.
StampsApart == \A i, j \in Owned : stamp[i.send] = stamp[j.send] => i = j
NotYetSeen == \A i \in Owned : stamp[i.send] \notin accepted

\* Nothing signed later arrives before an emergency frame, or is being written
\* while it waits; and emergency frames wait in the order they were signed.
EmergencyAhead ==
  \A i \in Owned : i.prio = EMERGENCY_PRIORITY => \A t \in accepted : t < stamp[i.send]
EmergencyNext ==
  inFlight # None =>
    \A i \in queue : i.prio = EMERGENCY_PRIORITY => stamp[inFlight.send] < stamp[i.send]
EmergencyInOrder ==
  \A i, j \in queue :
    /\ i.prio = EMERGENCY_PRIORITY /\ j.prio = EMERGENCY_PRIORITY
    /\ stamp[i.send] < stamp[j.send]
    => i.age >= j.age /\ ~StandsAhead(j, i)

\* What was dropped was not newer than something accepted.
DroppedForNewer == \A r \in replayed : r[1] \in Nat /\ \E t \in accepted : r[1] <= t

FrameInv ==
  /\ StampsGiven /\ StampsApart /\ NotYetSeen
  /\ EmergencyAhead /\ EmergencyNext /\ EmergencyInOrder
  /\ DroppedForNewer /\ DropsAreOvertaken

-----------------------------------------------------------------------------
\* What is owned, and its types.
LEMMA OwnedTypes ==
  ASSUME Inv
  PROVE  /\ \A i \in Owned : i \in Items /\ i.send \in Sends /\ i.prio \in Nat /\ i.age \in Nat
         /\ queue \subseteq Owned
         /\ inFlight # None => inFlight \in Owned
         /\ \A i, j \in Owned : i.send = j.send => i = j
<1>1. \A i \in Owned : i \in Items
  BY DEF Owned, Inv, TypeOK
<1>2. \A i \in Items : i.send \in Sends /\ i.prio \in Nat /\ i.age \in Nat
  BY QueueAssumption DEF Items
<1>3. \A i, j \in Owned : i.send = j.send => i = j
  BY DEF Owned, Inv, OnePlace, SendsOf
<1> QED
  BY <1>1, <1>2, <1>3 DEF Owned

\* An emergency frame is at the top, and nothing else ever is.
LEMMA EmergencyBand ==
  ASSUME NEW i \in Items
  PROVE  /\ i.prio = EMERGENCY_PRIORITY => EffectivePriority(i) = 0
         /\ i.prio # EMERGENCY_PRIORITY => EffectivePriority(i) >= 1
  BY PromotionIsNatural
  DEF EffectivePriority, Promoted, EMERGENCY_PRIORITY, NON_EMERGENCY_FLOOR

\* Of two emergency frames the one signed later does not come before the other,
\* and of another band no frame does.
LEMMA NoPassing ==
  ASSUME Inv, FrameInv, NEW i \in queue, NEW j \in queue,
         i.prio = EMERGENCY_PRIORITY, Before(j, i)
  PROVE  j.prio = EMERGENCY_PRIORITY /\ ~(stamp[i.send] < stamp[j.send])
<1>1. i \in Items /\ j \in Items /\ i.age \in Nat /\ j.age \in Nat
  BY OwnedTypes
<1>2. EffectivePriority(j) <= EffectivePriority(i)
  BY <1>1, PromotionIsNatural DEF Before
<1>3. j.prio = EMERGENCY_PRIORITY
  BY <1>1, <1>2, EmergencyBand, PromotionIsNatural
<1>4. EffectivePriority(j) = EffectivePriority(i)
  BY <1>1, <1>3, EmergencyBand
<1>5. j.age > i.age \/ (j.age = i.age /\ StandsAhead(j, i))
  BY <1>1, <1>4, PromotionIsNatural DEF Before
<1> QED
  BY <1>1, <1>3, <1>5 DEF FrameInv, EmergencyInOrder

\* Items leave the queue, or signed ones are refused: what stays keeps order.
LEMMA FewerFrames ==
  ASSUME Inv, FrameInv, StampsGiven',
         queue' \subseteq queue, ahead' \subseteq ahead, inFlight' = inFlight,
         accepted' = accepted, replayed' = replayed,
         \A i \in Owned : stamp'[i.send] = stamp[i.send]
  PROVE  FrameInv'
<1>1. Owned' \subseteq Owned /\ queue \subseteq Owned /\ (inFlight # None => inFlight \in Owned)
  BY DEF Owned
<1>2. StampsApart' /\ NotYetSeen' /\ EmergencyAhead'
  BY <1>1 DEF FrameInv, StampsApart, NotYetSeen, EmergencyAhead
<1>3. EmergencyNext'
  BY <1>1 DEF FrameInv, EmergencyNext
<1>4. EmergencyInOrder'
  BY <1>1 DEF FrameInv, EmergencyInOrder, StandsAhead
<1>5. DroppedForNewer' /\ DropsAreOvertaken'
  BY DEF FrameInv, DroppedForNewer, DropsAreOvertaken
<1> QED
  BY <1>2, <1>3, <1>4, <1>5 DEF FrameInv

\* Signing and enqueueing a frame keeps the order of the emergency frames.
LEMMA SendSignedFrames ==
  ASSUME Inv, Inv', FrameInv, NEW s \in Sends, NEW prio \in Priorities,
         NEW key \in Keys \cup {NoKey}, SendSigned(s, prio, key)
  PROVE  FrameInv'
<1> DEFINE superseded == Superseded(key)
           kept == queue \ superseded
           item == [send |-> s, prio |-> prio, key |-> key, age |-> InheritedAge(superseded)]
<1>1. /\ Free(s) /\ lastStamp' = lastStamp + 1
      /\ stamp' = [stamp EXCEPT ![s] = lastStamp + 1]
      /\ accepted' = accepted /\ replayed' = replayed
      /\ key # NoKey <=> prio = BACKGROUND
  BY DEF SendSigned, Enqueue, NextStamp
<1>2. \/ queue' = kept /\ ahead' = Within(ahead, kept) /\ inFlight' = inFlight
      \/ Push(item, kept)
  BY DEF SendSigned, Enqueue
<1>3. StampsGiven'
  BY <1>1 DEF FrameInv, StampsGiven
<1>4. s \notin SendsOf(queue) /\ (inFlight # None => inFlight.send # s)
  BY <1>1 DEF Free, Inv, PendingIffOwned
<1>5. \A i \in Owned : i.send # s /\ i.send \in Sends
  BY <1>4, OwnedTypes DEF Owned, SendsOf
<1>6. \A i \in Owned : stamp'[i.send] = stamp[i.send] /\ stamp[i.send] < stamp'[s]
                       /\ stamp[i.send] \in Nat
  BY <1>1, <1>5 DEF FrameInv, StampsGiven
<1>7. stamp'[s] = lastStamp + 1 /\ \A t \in accepted : t < stamp'[s]
  BY <1>1 DEF FrameInv, StampsGiven
<1>8. item.send = s /\ item.prio = prio
      /\ (prio = EMERGENCY_PRIORITY => item.age = 0)
  <2>1. prio = EMERGENCY_PRIORITY => key = NoKey
    BY <1>1 DEF EMERGENCY_PRIORITY, BACKGROUND
  <2>2. key = NoKey => superseded = {}
    BY DEF Superseded, WithKey
  <2> QED
    BY <2>1, <2>2 DEF InheritedAge
<1>9. kept \subseteq queue /\ queue \subseteq Owned /\ (inFlight # None => inFlight \in Owned)
  BY OwnedTypes
<1>10. CASE queue' = kept /\ ahead' = Within(ahead, kept) /\ inFlight' = inFlight
  BY <1>1, <1>3, <1>6, <1>9, <1>10, FewerFrames DEF Within
<1> HIDE DEF item, kept
<1>11. CASE inFlight # None /\ Push(item, kept)
  <2>1. /\ queue' = kept \cup {item} /\ inFlight' = inFlight
        /\ ahead' = Within(ahead, kept) \cup (SendsOf(kept) \X {s})
    BY <1>8, <1>11 DEF Push
  <2>2. Owned' \subseteq Owned \cup {item}
    BY <1>9, <2>1 DEF Owned
  <2>3. StampsApart'
    BY <1>6, <1>8, <2>2 DEF FrameInv, StampsApart
  <2>4. NotYetSeen'
    BY <1>1, <1>6, <1>7, <1>8, <2>2 DEF FrameInv, NotYetSeen, StampsGiven
  <2>5. EmergencyAhead'
    BY <1>1, <1>6, <1>7, <1>8, <2>2 DEF FrameInv, EmergencyAhead
  <2>6. EmergencyNext'
    BY <1>6, <1>8, <1>9, <2>1 DEF FrameInv, EmergencyNext
  <2>7. EmergencyInOrder'
    <3> SUFFICES ASSUME NEW i \in queue', NEW j \in queue',
                        i.prio = EMERGENCY_PRIORITY, j.prio = EMERGENCY_PRIORITY,
                        stamp'[i.send] < stamp'[j.send]
                 PROVE  i.age >= j.age /\ <<j.send, i.send>> \notin ahead'
      BY DEF EmergencyInOrder, StandsAhead
    <3>1. i \in kept
      <4>1. CASE i = item
        <5>1. j \in Owned
          BY <1>6, <1>8, <1>9, <2>1, <4>1, <1>7, <1>3 DEF StampsGiven
        <5> QED
          BY <1>6, <1>7, <1>8, <4>1, <5>1, <1>3 DEF FrameInv, StampsGiven
      <4> QED
        BY <2>1, <4>1
    <3>2. i.send # s /\ i \in Owned /\ i.age \in Nat
      BY <1>5, <1>9, <3>1, OwnedTypes
    <3>3. CASE j = item
      <4>1. j.age = 0 /\ j.send = s
        BY <1>8, <3>3
      <4>2. <<s, i.send>> \notin ahead'
        <5>1. s \notin SendsOf(kept)
          BY <1>4, <1>9 DEF SendsOf
        <5> QED
          BY <2>1, <5>1 DEF Within
      <4> QED
        BY <3>2, <4>1, <4>2
    <3>4. CASE j \in kept
      <4>1. i.age >= j.age /\ <<j.send, i.send>> \notin ahead
        BY <1>6, <1>9, <3>1, <3>4 DEF FrameInv, EmergencyInOrder, StandsAhead
      <4> QED
        BY <2>1, <3>2, <4>1 DEF Within
    <3> QED
      BY <2>1, <3>3, <3>4
  <2>8. DroppedForNewer' /\ DropsAreOvertaken'
    BY <1>1 DEF FrameInv, DroppedForNewer, DropsAreOvertaken
  <2> QED
    BY <1>3, <2>3, <2>4, <2>5, <2>6, <2>7, <2>8 DEF FrameInv
<1>12. CASE inFlight = None /\ Push(item, kept)
  <2>1. queue' = {} /\ inFlight' = item
    BY <1>12 DEF Push, Inv, WorkConserving
  <2>2. Owned' \subseteq {item}
    BY <2>1 DEF Owned
  <2>3. StampsApart' /\ EmergencyNext' /\ EmergencyInOrder'
    BY <2>1, <2>2 DEF StampsApart, EmergencyNext, EmergencyInOrder
  <2>4. NotYetSeen' /\ EmergencyAhead'
    BY <1>1, <1>7, <1>8, <1>3, <2>2 DEF NotYetSeen, EmergencyAhead, FrameInv, StampsGiven
  <2>5. DroppedForNewer' /\ DropsAreOvertaken'
    BY <1>1 DEF FrameInv, DroppedForNewer, DropsAreOvertaken
  <2> QED
    BY <1>3, <2>3, <2>4, <2>5 DEF FrameInv
<1> QED
  BY <1>2, <1>10, <1>11, <1>12

\* What arrives was signed after all that has been accepted, or is dropped.
LEMMA ReceiveFrames ==
  ASSUME Inv, FrameInv, inFlight # None, Receive(stamp[inFlight.send], inFlight.prio)
  PROVE  /\ accepted \subseteq accepted' /\ accepted' \subseteq accepted \cup {stamp[inFlight.send]}
         /\ DroppedForNewer' /\ DropsAreOvertaken'
<1> DEFINE ts == stamp[inFlight.send]
<1>1. inFlight \in Owned /\ inFlight.send \in Sends /\ inFlight.prio \in Nat
  BY OwnedTypes
<1>2. ts \in Nat /\ ts \notin accepted /\ accepted \subseteq Nat
  BY <1>1 DEF FrameInv, StampsGiven, NotYetSeen
<1>3. inFlight.prio = EMERGENCY_PRIORITY => \A t \in accepted : t < ts
  BY <1>1 DEF FrameInv, EmergencyAhead
<1> HIDE DEF ts
<1>4. CASE Advances(ts) /\ accepted' = accepted \cup {ts} /\ replayed' = replayed
  <2>1. \A r \in replayed : r[1] # ts
    BY <1>2, <1>4 DEF Advances, FrameInv, DroppedForNewer
  <2> QED
    BY <1>4, <2>1 DEF FrameInv, DroppedForNewer, DropsAreOvertaken, ts
<1>5. CASE ~Advances(ts) /\ accepted' = accepted
           /\ replayed' = replayed \cup {<<ts, inFlight.prio>>}
  <2>1. PICK t \in accepted : ~(ts > t)
    BY <1>5 DEF Advances
  <2>2. ts <= t
    BY <1>2, <2>1
  <2>3. inFlight.prio > EMERGENCY_PRIORITY
    BY <1>1, <1>2, <1>3, <2>1, <2>2 DEF EMERGENCY_PRIORITY
  <2>4. DroppedForNewer'
    BY <1>2, <1>5, <2>2 DEF FrameInv, DroppedForNewer
  <2>5. DropsAreOvertaken'
    BY <1>2, <1>5, <2>3 DEF FrameInv, DropsAreOvertaken
  <2> QED
    BY <1>5, <2>4, <2>5
<1> QED
  BY <1>4, <1>5 DEF Receive, ts

\* A write ends, the peer applies its rule, and the next write starts.
LEMMA FrameLeavesFrames ==
  ASSUME Inv, Inv', FrameInv, NEW written \in BOOLEAN, FrameLeaves(written)
  PROVE  FrameInv'
<1>1. /\ inFlight # None /\ StartNext /\ lastStamp' = lastStamp /\ stamp' = stamp
      /\ \/ Receive(stamp[inFlight.send], inFlight.prio)
         \/ accepted' = accepted /\ replayed' = replayed
  BY DEF FrameLeaves, WriteSettles
<1>2. /\ accepted' \subseteq accepted \cup {stamp[inFlight.send]}
      /\ DroppedForNewer' /\ DropsAreOvertaken'
  BY <1>1, ReceiveFrames DEF FrameInv, DroppedForNewer, DropsAreOvertaken
<1>3. /\ queue' \subseteq queue
      /\ \/ queue = {} /\ queue' = {} /\ inFlight' = None
         \/ inFlight' \in queue /\ queue' = queue \ {inFlight'}
  BY <1>1, StartNextEffect
<1>4. /\ queue \subseteq Owned /\ inFlight \in Owned /\ inFlight \notin queue
      /\ \A i \in Owned : i.send \in Sends /\ stamp[i.send] \in Nat
  BY <1>1, OwnedTypes DEF Inv, OnePlace, SendsOf, FrameInv, StampsGiven
<1>5. Owned' \subseteq queue
  BY <1>3 DEF Owned
<1>6. \A i \in queue : stamp[i.send] # stamp[inFlight.send]
  BY <1>4 DEF FrameInv, StampsApart
<1>7. StampsGiven'
  BY <1>1, <1>2, <1>4 DEF FrameInv, StampsGiven
<1>8. StampsApart'
  BY <1>1, <1>4, <1>5 DEF FrameInv, StampsApart
<1>9. NotYetSeen'
  BY <1>1, <1>2, <1>4, <1>5, <1>6 DEF FrameInv, NotYetSeen
<1>10. EmergencyAhead'
  BY <1>1, <1>2, <1>4, <1>5 DEF FrameInv, EmergencyAhead, EmergencyNext
<1>11. EmergencyNext'
  <2> SUFFICES ASSUME inFlight' # None, NEW i \in queue', i.prio = EMERGENCY_PRIORITY
               PROVE  stamp[inFlight'.send] < stamp[i.send]
    BY <1>1 DEF EmergencyNext
  <2>1. i \in queue /\ Before(inFlight', i)
    BY <1>1, HeadFirst
  <2>2. inFlight' \in queue /\ i # inFlight'
    BY <1>3
  <2>3. ~(stamp[i.send] < stamp[inFlight'.send])
    BY <2>1, <2>2, NoPassing
  <2>4. stamp[i.send] # stamp[inFlight'.send]
    BY <1>4, <2>1, <2>2 DEF FrameInv, StampsApart
  <2> QED
    BY <1>4, <2>1, <2>2, <2>3, <2>4
<1>12. EmergencyInOrder'
  <2> SUFFICES ASSUME NEW i \in queue', NEW j \in queue',
                      i.prio = EMERGENCY_PRIORITY, j.prio = EMERGENCY_PRIORITY,
                      stamp[i.send] < stamp[j.send]
               PROVE  i.age >= j.age /\ <<j.send, i.send>> \notin ahead'
    BY <1>1 DEF EmergencyInOrder, StandsAhead
  <2>1. i \in queue /\ j \in queue
    BY <1>3
  <2>2. i.age >= j.age
    BY <2>1 DEF FrameInv, EmergencyInOrder
  <2>3. ahead' = SortedOrder(queue')
    BY <1>1, <2>1 DEF StartNext
  <2>4. ASSUME NEW a \in queue', NEW b \in queue', Before(a, b),
               <<j.send, i.send>> = <<a.send, b.send>>
        PROVE  FALSE
    <3>1. a = j /\ b = i
      BY <1>3, <1>4, <2>1, <2>4, OwnedTypes
    <3> QED
      BY <2>1, <2>4, <3>1, NoPassing
  <2>5. <<j.send, i.send>> \notin ahead'
    BY <2>3, <2>4 DEF SortedOrder
  <2> QED
    BY <2>2, <2>5
<1> QED
  BY <1>2, <1>7, <1>8, <1>9, <1>10, <1>11, <1>12 DEF FrameInv

\* Time leaves the frames where they are.
LEMMA TickFrames ==
  ASSUME Inv, FrameInv, Tick,
         lastStamp' = lastStamp, stamp' = stamp, accepted' = accepted, replayed' = replayed
  PROVE  FrameInv'
<1> DEFINE older(i) == [i EXCEPT !.age = @ + 1]
<1>1. \A i \in queue : older(i).send = i.send /\ older(i).prio = i.prio
                       /\ older(i).age = i.age + 1 /\ i.age \in Nat
  BY DEF Inv, TypeOK, Items
<1>2. queue' = {older(i) : i \in queue} /\ inFlight' = inFlight /\ ahead' = ahead
  BY DEF Tick
<1>3. accepted' = accepted /\ replayed' = replayed /\ stamp' = stamp /\ lastStamp' = lastStamp
  OBVIOUS
<1> HIDE DEF older
<1>4. \A i \in queue' : \E j \in queue :
        i = older(j) /\ i.send = j.send /\ i.prio = j.prio /\ i.age = j.age + 1 /\ j.age \in Nat
  BY <1>1, <1>2
<1>5. queue \subseteq Owned /\ (inFlight # None => inFlight \in Owned)
  BY OwnedTypes
<1>6. \A i \in Owned' : (i \in queue' \/ (inFlight # None /\ i = inFlight))
  BY <1>2 DEF Owned
<1>7. StampsApart'
  <2> SUFFICES ASSUME NEW i \in Owned', NEW j \in Owned', stamp[i.send] = stamp[j.send]
               PROVE  i = j
    BY <1>3 DEF StampsApart
  <2>1. CASE i \in queue' /\ j \in queue'
    BY <1>4, <1>5, <2>1 DEF FrameInv, StampsApart
  <2>2. inFlight # None => \A x \in queue : stamp[x.send] # stamp[inFlight.send]
    BY <1>5 DEF FrameInv, StampsApart, Inv, OnePlace, SendsOf
  <2> QED
    BY <1>4, <1>6, <2>1, <2>2
<1>8. NotYetSeen' /\ EmergencyAhead'
  BY <1>3, <1>4, <1>5, <1>6 DEF FrameInv, NotYetSeen, EmergencyAhead
<1>9. EmergencyNext'
  BY <1>2, <1>3, <1>4 DEF FrameInv, EmergencyNext
<1>10. EmergencyInOrder'
  <2> SUFFICES ASSUME NEW i \in queue', NEW j \in queue',
                      i.prio = EMERGENCY_PRIORITY, j.prio = EMERGENCY_PRIORITY,
                      stamp[i.send] < stamp[j.send]
               PROVE  i.age >= j.age /\ <<j.send, i.send>> \notin ahead
    BY <1>2, <1>3 DEF EmergencyInOrder, StandsAhead
  <2>1. PICK a \in queue : i.send = a.send /\ i.prio = a.prio /\ i.age = a.age + 1 /\ a.age \in Nat
    BY <1>4
  <2>2. PICK b \in queue : j.send = b.send /\ j.prio = b.prio /\ j.age = b.age + 1 /\ b.age \in Nat
    BY <1>4
  <2>3. a.age >= b.age /\ <<b.send, a.send>> \notin ahead
    BY <2>1, <2>2 DEF FrameInv, EmergencyInOrder, StandsAhead
  <2> QED
    BY <2>1, <2>2, <2>3
<1>11. StampsGiven' /\ DroppedForNewer' /\ DropsAreOvertaken'
  BY <1>3 DEF FrameInv, StampsGiven, DroppedForNewer, DropsAreOvertaken
<1> QED
  BY <1>7, <1>8, <1>9, <1>10, <1>11 DEF FrameInv

\* Nothing is signed and nothing arrives: what stays keeps order.
LEMMA QuietFrames ==
  ASSUME Inv, FrameInv,
         lastStamp' = lastStamp, stamp' = stamp, accepted' = accepted, replayed' = replayed,
         queue' \subseteq queue, ahead' \subseteq ahead, inFlight' = inFlight
  PROVE  FrameInv'
<1>1. StampsGiven'
  BY DEF FrameInv, StampsGiven
<1> QED
  BY <1>1, FewerFrames

\* Both invariants are inductive on a link.
LEMMA LinkStep == Inv /\ FrameInv /\ [LinkNext]_<<vars, linkVars>> => Inv' /\ FrameInv'
<1> SUFFICES ASSUME Inv, FrameInv, [LinkNext]_<<vars, linkVars>> PROVE Inv' /\ FrameInv'
  OBVIOUS
<1>1. [Next]_vars
  BY DEF LinkNext, SendSigned, FrameLeaves, Next
<1>2. Inv'
  BY <1>1, NextInv
<1>3. ASSUME NEW s \in Sends, NEW prio \in Priorities, NEW key \in Keys \cup {NoKey},
             SendSigned(s, prio, key)
      PROVE  FrameInv'
  BY <1>2, <1>3, SendSignedFrames
<1>4. ASSUME NEW written \in BOOLEAN, FrameLeaves(written) PROVE FrameInv'
  BY <1>2, <1>4, FrameLeavesFrames
<1>5. ASSUME NEW keys \in SUBSET Keys, DropCoalescedMatching(keys), UNCHANGED linkVars
      PROVE  FrameInv'
  <2>1. lastStamp' = lastStamp /\ stamp' = stamp /\ accepted' = accepted /\ replayed' = replayed
    BY <1>5 DEF linkVars
  <2>2. queue' \subseteq queue /\ ahead' \subseteq ahead /\ inFlight' = inFlight
    BY <1>5 DEF DropCoalescedMatching, Within
  <2> QED
    BY <2>1, <2>2, QuietFrames
<1>6. CASE Clear /\ UNCHANGED linkVars
  <2>1. lastStamp' = lastStamp /\ stamp' = stamp /\ accepted' = accepted /\ replayed' = replayed
    BY <1>6 DEF linkVars
  <2>2. queue' \subseteq queue /\ ahead' \subseteq ahead /\ inFlight' = inFlight
    BY <1>6 DEF Clear
  <2> QED
    BY <1>2, <2>1, <2>2, QuietFrames
<1>7. CASE Tick /\ UNCHANGED linkVars
  <2>1. lastStamp' = lastStamp /\ stamp' = stamp /\ accepted' = accepted /\ replayed' = replayed
    BY <1>7 DEF linkVars
  <2> QED
    BY <1>2, <1>7, <2>1, TickFrames
<1>8. CASE UNCHANGED <<vars, linkVars>>
  <2>1. lastStamp' = lastStamp /\ stamp' = stamp /\ accepted' = accepted /\ replayed' = replayed
    BY <1>8 DEF linkVars
  <2>2. queue' \subseteq queue /\ ahead' \subseteq ahead /\ inFlight' = inFlight
    BY <1>8 DEF vars
  <2> QED
    BY <1>2, <2>1, <2>2, QuietFrames
<1> QED
  BY <1>2, <1>3, <1>4, <1>5, <1>6, <1>7, <1>8 DEF LinkNext

\* A frame the peer drops as a replay was overtaken in the queue: the peer has
\* not seen its timestamp, and it is never an emergency frame.
THEOREM DropsOnlyOvertaken == LinkSpec => []DropsAreOvertaken
<1>1. LinkInit => Inv /\ FrameInv
  <2>1. LinkInit => Inv
    BY InitInv DEF LinkInit
  <2>2. LinkInit => FrameInv
    BY DEF LinkInit, Init, FrameInv, StampsGiven, StampsApart, NotYetSeen, EmergencyAhead,
           EmergencyNext, EmergencyInOrder, DroppedForNewer, DropsAreOvertaken, Owned
  <2> QED
    BY <2>1, <2>2
<1>2. FrameInv => DropsAreOvertaken
  BY DEF FrameInv
<1> QED
  BY <1>1, <1>2, LinkStep, PTL DEF LinkSpec
=============================================================================
