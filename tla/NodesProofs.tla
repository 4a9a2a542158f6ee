---------------------------- MODULE NodesProofs ----------------------------
(***************************************************************************)
(* Proofs about the flow nodes of MCNodes, one section for each: for every *)
(* value of the constants, of each component by itself, and of NodesSpec,  *)
(* whose steps are steps of the components.                                *)
(***************************************************************************)
EXTENDS MCNodes, ConnectionLifecycleProofs, FiniteSetTheorems, WellFoundedInduction, TLAPS

-----------------------------------------------------------------------------
(* Fan-out *)

\* The instance of Fanout counts as FiniteSets does: what the library says of
\* cardinalities, said of its own.
LEMMA SameCardinality == ASSUME NEW S PROVE Fan!Cardinality(S) = Cardinality(S)
BY DEF Fan!Cardinality, Cardinality

LEMMA PoolSize == ASSUME NEW S, IsFiniteSet(S) PROVE Fan!Cardinality(S) \in Nat
BY FS_CardinalityType, SameCardinality

LEMMA PoolEmpty == Fan!Cardinality({}) = 0
BY FS_EmptySet, SameCardinality

LEMMA PoolSubset ==
  ASSUME NEW S, IsFiniteSet(S), NEW T \in SUBSET S
  PROVE  IsFiniteSet(T) /\ Fan!Cardinality(T) <= Fan!Cardinality(S)
BY FS_Subset, SameCardinality

LEMMA PoolInterval ==
  ASSUME NEW a \in Int, NEW b \in Int
  PROVE  /\ IsFiniteSet(a..b)
         /\ Fan!Cardinality(a..b) = IF a > b THEN 0 ELSE b - a + 1
BY FS_Interval, SameCardinality

LEMMA PoolUnion ==
  ASSUME NEW S, IsFiniteSet(S), NEW T, IsFiniteSet(T)
  PROVE  /\ IsFiniteSet(S \cup T)
         /\ Fan!Cardinality(S \cup T) =
              Fan!Cardinality(S) + Fan!Cardinality(T) - Fan!Cardinality(S \cap T)
BY FS_Union, SameCardinality

LEMMA PoolIntersection ==
  ASSUME NEW S, IsFiniteSet(S), NEW T PROVE IsFiniteSet(S \cap T)
BY FS_Intersection

\* The bounds of a fan-out, in the words of the instance.
LEMMA FanoutBounds ==
  /\ Sysids \subseteq Nat \ {Fan!Broadcast}
  /\ MaxTargets \in Nat
  /\ Concurrencies \subseteq Nat \ {0}
BY FanoutAssumption DEF Broadcast, Fan!Broadcast


IsError(result) == result \in {"failed", "timedOut"}

HasError(classes) == \E t \in DOMAIN targets : IsError(classes[t])

\* A target has no result while its worker runs and before it is dispatched.
Accounted(workers, classes) ==
  /\ classes \in [DOMAIN targets -> Fan!Classes]
  /\ \A t \in DOMAIN targets : /\ classes[t] = "none" <=> (t \in workers \/ t > next)
                               /\ classes[t] # "skipped"

\* The workers and their results are what the dispatcher may look at.
PoolReady(workers, classes, isAborted) ==
  /\ workers \subseteq DOMAIN targets /\ \A t \in workers : t <= next
  /\ Accounted(workers, classes)
  /\ isAborted <=> (fanoutConfig.stopOnError /\ HasError(classes))
  /\ Fan!Cardinality(workers) <= fanoutConfig.concurrency

Distinct == \A i, j \in DOMAIN targets : targets[i] = targets[j] => i = j

BroadcastAlone == fanoutConfig.broadcast => targets = <<Fan!Broadcast>>

Running == pc \in {"race", "gap", "drain"}

\* The parts of the invariant: while commands are dispatched, ...
Pooled == pc = "input" \/ Running => PoolReady(inFlight, class, aborted)

\* ... what the dispatcher awaits, and why it may await it, ...
AwaitsForAReason ==
  /\ ~Running => inFlight = {}
  /\ Running => Distinct /\ fanoutOutput = "none"
  /\ pc = "input" => next = 0 /\ fanoutOutput = "none"
  /\ pc = "gap" => Fan!Cardinality(inFlight) < fanoutConfig.concurrency /\ next < Len(targets)
  /\ pc = "pacing" => next < Len(targets) /\ fanoutOutput = "messages"
  /\ pc = "drain" => aborted \/ fanoutClosed \/ next = Len(targets)
  /\ BroadcastAlone

\* ... that an error is noticed in the turn it comes ...
ErrorsNoticed == aborted <=> (fanoutConfig.stopOnError /\ HasError(class))

\* ... and that a message that is paced or refused commands nothing.
Unhurt == pc = "pacing" => ~HasError(class)

FanoutInv ==
  /\ Fan!TypeOK /\ Pooled /\ AwaitsForAReason /\ ErrorsNoticed /\ Unhurt
  /\ Fan!ReportAccounts /\ (fanoutOutput = "report" => pc = "done")

Frame(isAborted, isClosed) ==
  /\ UNCHANGED <<fanoutConfig, targets>>
  /\ aborted' = isAborted /\ fanoutClosed' = isClosed

-----------------------------------------------------------------------------
\* What it is to be below a limit.
LEMMA Below ==
  ASSUME NEW n \in Nat, NEW limit \in Nat
  PROVE  /\ n < limit => n # limit
         /\ ~(n >= limit) <=> n < limit
         /\ n <= limit /\ n # limit => n < limit
         /\ n < limit => n + 1 <= limit
         /\ \A k \in Nat : n + k <= limit => k <= limit
OBVIOUS

\* How many targets are launched at once.
LEMMA Batch ==
  ASSUME NEW workers \in Nat, NEW limit \in Nat, NEW done \in Nat, NEW total \in Nat,
         workers < limit, done < total
  PROVE  /\ Fan!Smaller(limit - workers, total - done) \in Nat
         /\ done + Fan!Smaller(limit - workers, total - done) <= total
         /\ workers + Fan!Smaller(limit - workers, total - done) <= limit
BY DEF Fan!Smaller

\* What the types say of the list and of the settings.
LEMMA Shape ==
  ASSUME Fan!TypeOK
  PROVE  /\ DOMAIN targets = 1..Len(targets) /\ Len(targets) \in Nat /\ next \in Nat
         /\ fanoutConfig.concurrency \in Nat /\ fanoutConfig.stopOnError \in BOOLEAN
         /\ fanoutConfig.broadcast \in BOOLEAN
         /\ \A workers \in SUBSET (DOMAIN targets) :
               IsFiniteSet(workers) /\ Fan!Cardinality(workers) \in Nat
<1>1. DOMAIN targets = 1..Len(targets) /\ Len(targets) \in Nat /\ next \in Nat
  BY DEF Fan!TypeOK
<1>2. fanoutConfig.concurrency \in Nat /\ fanoutConfig.stopOnError \in BOOLEAN /\ fanoutConfig.broadcast \in BOOLEAN
  BY FanoutBounds DEF Fan!TypeOK, Fan!Configs
<1>3. IsFiniteSet(1..Len(targets))
  BY <1>1, PoolInterval
<1>4. \A workers \in SUBSET (DOMAIN targets) : IsFiniteSet(workers) /\ Fan!Cardinality(workers) \in Nat
  BY <1>1, <1>3, PoolSubset, PoolSize
<1> QED BY <1>1, <1>2, <1>4

\* To launch k targets is to have at most k more workers.
LEMMA LaunchedCount ==
  ASSUME Fan!TypeOK, NEW k \in Nat, next + k <= Len(targets),
         NEW workers, IsFiniteSet(workers)
  PROVE  /\ Fan!Launched(k) = (next + 1)..(next + k)
         /\ IsFiniteSet(workers \cup Fan!Launched(k))
         /\ Fan!Cardinality(workers \cup Fan!Launched(k)) <= Fan!Cardinality(workers) + k
<1>1. Fan!Launched(k) = (next + 1)..(next + k)
  BY Shape DEF Fan!Launched
<1>2. IsFiniteSet(Fan!Launched(k)) /\ Fan!Cardinality(Fan!Launched(k)) = k
  BY <1>1, Shape, PoolInterval
<1>3. IsFiniteSet(workers \cup Fan!Launched(k))
  BY <1>2, PoolUnion
<1>4. /\ Fan!Cardinality(workers \cup Fan!Launched(k)) =
           Fan!Cardinality(workers) + Fan!Cardinality(Fan!Launched(k)) - Fan!Cardinality(workers \cap Fan!Launched(k))
      /\ IsFiniteSet(workers \cap Fan!Launched(k))
  BY <1>2, PoolUnion, PoolIntersection
<1>5. Fan!Cardinality(workers) \in Nat /\ Fan!Cardinality(workers \cap Fan!Launched(k)) \in Nat
  BY <1>4, PoolSize
<1> QED BY <1>1, <1>2, <1>3, <1>4, <1>5

-----------------------------------------------------------------------------
\* Waiting for the workers that run, or the end of the handler.
LEMMA DrainKeeps ==
  ASSUME Fan!TypeOK, NEW workers, NEW classes, NEW isAborted \in BOOLEAN, NEW isClosed \in BOOLEAN,
         PoolReady(workers, classes, isAborted), Distinct, fanoutOutput = "none",
         BroadcastAlone,
         isAborted \/ isClosed \/ next = Len(targets),
         Fan!Drain(workers, classes, isAborted, isClosed), Frame(isAborted, isClosed)
  PROVE  FanoutInv'
<1>0. /\ DOMAIN targets = 1..Len(targets) /\ Len(targets) \in Nat /\ next \in Nat
      /\ fanoutConfig.concurrency \in Nat /\ fanoutConfig.stopOnError \in BOOLEAN
  BY Shape
<1>1. CASE workers = {} /\ Fan!Finish(classes, isAborted, isClosed) /\ next' = next /\ inFlight' = workers
  <2> DEFINE skip == isAborted /\ ~isClosed
  <2>1. /\ class' = [t \in DOMAIN targets |-> IF skip /\ t > next THEN "skipped" ELSE classes[t]]
        /\ pc' = "done" /\ fanoutOutput' = IF isClosed THEN fanoutOutput ELSE "report"
    BY <1>1 DEF Fan!Finish, Fan!FinalClass
  <2>2. class' \in [DOMAIN targets -> Fan!Classes] /\ (HasError(class') <=> HasError(classes))
    BY <2>1 DEF PoolReady, Accounted, Fan!Classes, Fan!Results, HasError, IsError
  <2>3. Fan!TypeOK'
    <3>1. aborted' \in BOOLEAN /\ fanoutClosed' \in BOOLEAN
      BY DEF Frame
    <3> QED BY <3>1, <1>1, <2>1, <2>2 DEF Fan!TypeOK, Frame, Fan!Awaits, Fan!Outputs
  <2>4. Pooled' /\ AwaitsForAReason' /\ Unhurt'
    BY <1>1, <2>1 DEF Pooled, AwaitsForAReason, Running, Unhurt, Frame, BroadcastAlone
  <2>5. ErrorsNoticed'
    BY <2>2 DEF ErrorsNoticed, HasError, PoolReady, Frame
  <2>6. Fan!ReportAccounts'
    <3> SUFFICES ASSUME fanoutOutput' = "report" PROVE Fan!ReportAccounts'
      BY DEF Fan!ReportAccounts
    <3>1. ~isClosed
      BY <2>1
    <3>2. \A t \in DOMAIN targets : class'[t] # "none" /\ (class'[t] = "skipped" <=> t > next)
      <4>1. CASE isAborted
        BY <1>1, <2>1, <3>1, <4>1 DEF PoolReady, Accounted
      <4>2. CASE ~isAborted
        <5>1. next = Len(targets) /\ class' = classes
          BY <2>1, <3>1, <4>2 DEF PoolReady, Accounted
        <5> QED BY <1>0, <1>1, <5>1 DEF PoolReady, Accounted
      <4> QED BY <4>1, <4>2
    <3>3. next < Len(targets) => fanoutConfig.stopOnError /\ \E t \in DOMAIN targets : class'[t] \in {"failed", "timedOut"}
      <4>1. next < Len(targets) => isAborted
        <5>1. next < Len(targets) => next # Len(targets)
          BY <1>0, Below, Zenon
        <5> QED BY <3>1, <5>1, Zenon
      <4>2. isAborted => fanoutConfig.stopOnError /\ HasError(class')
        BY <2>2 DEF PoolReady
      <4> QED BY <4>1, <4>2 DEF HasError, IsError
    <3> QED BY <1>1, <2>2, <3>2, <3>3 DEF Fan!ReportAccounts, Distinct, Fan!Errors, Frame
  <2> QED BY <2>1, <2>3, <2>4, <2>5, <2>6 DEF FanoutInv
<1>2. CASE /\ workers # {} /\ pc' = "drain" /\ class' = classes /\ fanoutOutput' = fanoutOutput
           /\ next' = next /\ inFlight' = workers
  <2>1. Fan!TypeOK'
    <3>1. aborted' \in BOOLEAN /\ fanoutClosed' \in BOOLEAN
      BY DEF Frame
    <3> QED BY <1>2, <3>1 DEF Fan!TypeOK, Frame, Fan!Awaits, PoolReady, Accounted
  <2>2. Pooled'
    BY <1>2 DEF Pooled, PoolReady, Accounted, HasError, Frame
  <2>3. AwaitsForAReason' /\ Unhurt'
    BY <1>2 DEF AwaitsForAReason, Running, Unhurt, Frame, Distinct, BroadcastAlone
  <2>4. ErrorsNoticed'
    BY <1>2 DEF ErrorsNoticed, HasError, PoolReady, Frame
  <2> QED BY <1>2, <2>1, <2>2, <2>3, <2>4 DEF FanoutInv, Fan!ReportAccounts
<1> QED BY <1>1, <1>2 DEF Fan!Drain

\* The launch of k more targets, for which there are workers.
LEMMA LaunchKeeps ==
  ASSUME Fan!TypeOK, NEW workers, NEW classes, NEW isAborted \in BOOLEAN, NEW isClosed \in BOOLEAN,
         PoolReady(workers, classes, isAborted), Distinct, fanoutOutput = "none",
         BroadcastAlone,
         NEW k \in Nat, next + k <= Len(targets), Fan!Cardinality(workers) + k <= fanoutConfig.concurrency,
         Fan!Launch(k, workers, classes), Frame(isAborted, isClosed)
  PROVE  FanoutInv'
<1>0. /\ DOMAIN targets = 1..Len(targets) /\ Len(targets) \in Nat /\ next \in Nat
      /\ fanoutConfig.concurrency \in Nat /\ fanoutConfig.stopOnError \in BOOLEAN
  BY Shape
<1> DEFINE pool == workers \cup Fan!Launched(k)
<1>1. IsFiniteSet(workers)
  BY Shape DEF PoolReady
<1>2. Fan!Launched(k) = (next + 1)..(next + k) /\ IsFiniteSet(pool) /\ Fan!Cardinality(pool) <= Fan!Cardinality(workers) + k
  BY <1>1, LaunchedCount
<1>3. Fan!Cardinality(workers) \in Nat /\ Fan!Cardinality(pool) \in Nat
  BY <1>1, <1>2, PoolSize
<1>4. /\ next' = next + k /\ inFlight' = pool /\ class' = classes /\ fanoutOutput' = fanoutOutput
      /\ pc' = Fan!Awaited(pool, next + k)
  BY DEF Fan!Launch
<1>5. /\ pc' \in {"drain", "race", "gap"}
      /\ pc' = "drain" => next + k = Len(targets)
      /\ pc' = "gap" => ~(Fan!Cardinality(pool) >= fanoutConfig.concurrency) /\ next + k < Len(targets)
  BY <1>0, <1>4 DEF Fan!Awaited
<1>6. Fan!TypeOK'
  <2>1. aborted' \in BOOLEAN /\ fanoutClosed' \in BOOLEAN
    BY DEF Frame
  <2>2. pool \subseteq DOMAIN targets /\ next + k \in 0..Len(targets)
    BY <1>0, <1>2 DEF PoolReady
  <2> HIDE DEF pool
  <2> QED BY <1>4, <1>5, <2>1, <2>2 DEF Fan!TypeOK, Frame, Fan!Awaits, PoolReady, Accounted
<1>7. Pooled'
  <2>1. Accounted(inFlight, class)' /\ pool \subseteq DOMAIN targets /\ \A t \in pool : t <= next + k
    <3>1. pool \subseteq DOMAIN targets /\ \A t \in pool : t <= next + k
      BY <1>0, <1>2 DEF PoolReady
    <3>2. \A t \in DOMAIN targets : (t \in workers \/ t > next) <=> (t \in pool \/ t > next + k)
      BY <1>0, <1>2 DEF PoolReady
    <3> HIDE DEF pool
    <3> QED BY <1>4, <3>1, <3>2 DEF PoolReady, Accounted, Frame
  <2> QED BY <1>2, <1>3, <1>0, <1>4, <2>1 DEF Pooled, PoolReady, Accounted, HasError, Frame
<1>8. AwaitsForAReason' /\ Unhurt'
  <2> HIDE DEF pool
  <2>1. pc' = "gap" => Fan!Cardinality(inFlight') < fanoutConfig.concurrency /\ next' < Len(targets)
    <3>1. fanoutConfig.concurrency \in Nat /\ Fan!Cardinality(pool) \in Nat
      BY <1>0, <1>3
    <3>2. ~(Fan!Cardinality(pool) >= fanoutConfig.concurrency) => Fan!Cardinality(pool) < fanoutConfig.concurrency
      BY <3>1, Below, Zenon
    <3> QED BY <1>4, <1>5, <3>2, Zenon
  <2>2. pc' = "drain" => next' = Len(targets)
    BY <1>4, <1>5
  <2> QED BY <1>4, <1>5, <2>1, <2>2 DEF AwaitsForAReason, Running, Unhurt, Frame, Distinct, BroadcastAlone
<1>9. ErrorsNoticed'
  BY <1>4 DEF ErrorsNoticed, HasError, PoolReady, Frame
<1> QED BY <1>4, <1>6, <1>7, <1>8, <1>9 DEF FanoutInv, Fan!ReportAccounts

\* The dispatcher's look at the pool.
LEMMA DispatchKeeps ==
  ASSUME Fan!TypeOK, NEW workers, NEW classes, NEW isAborted \in BOOLEAN, NEW isClosed \in BOOLEAN,
         PoolReady(workers, classes, isAborted), Distinct, fanoutOutput = "none",
         BroadcastAlone,
         Fan!Dispatch(workers, classes, isAborted, isClosed), Frame(isAborted, isClosed)
  PROVE  FanoutInv'
<1>0. /\ DOMAIN targets = 1..Len(targets) /\ Len(targets) \in Nat /\ next \in Nat /\ next <= Len(targets)
      /\ fanoutConfig.concurrency \in Nat
  BY Shape DEF Fan!TypeOK
<1>1. Fan!Cardinality(workers) \in Nat
  BY Shape DEF PoolReady
<1>2. CASE Fan!Halts(isAborted, isClosed) \/ next = Len(targets)
  BY <1>2, DrainKeeps DEF Fan!Dispatch, Fan!Halts
<1>3. CASE ~(Fan!Halts(isAborted, isClosed) \/ next = Len(targets)) /\ Fan!Cardinality(workers) >= fanoutConfig.concurrency
  <2>1. Fan!Launch(0, workers, classes)
    BY <1>3 DEF Fan!Dispatch
  <2> QED BY <2>1, <1>0, <1>1, LaunchKeeps DEF PoolReady
<1>4. CASE /\ ~(Fan!Halts(isAborted, isClosed) \/ next = Len(targets))
           /\ ~(Fan!Cardinality(workers) >= fanoutConfig.concurrency) /\ ~fanoutConfig.spacing
  <2> DEFINE k == Fan!Smaller(fanoutConfig.concurrency - Fan!Cardinality(workers), Len(targets) - next)
  <2>1. Fan!Launch(k, workers, classes)
    BY <1>4 DEF Fan!Dispatch
  <2>2. k \in Nat /\ next + k <= Len(targets) /\ Fan!Cardinality(workers) + k <= fanoutConfig.concurrency
    <3>1. Fan!Cardinality(workers) < fanoutConfig.concurrency /\ next < Len(targets)
      BY <1>0, <1>1, <1>4, Below, Zenon
    <3> QED BY <1>0, <1>1, <3>1, Batch, Zenon
  <2> QED BY <2>1, <2>2, LaunchKeeps
<1>5. CASE /\ ~(Fan!Halts(isAborted, isClosed) \/ next = Len(targets))
           /\ ~(Fan!Cardinality(workers) >= fanoutConfig.concurrency) /\ fanoutConfig.spacing /\ next = 0
  <2>1. Fan!Launch(1, workers, classes)
    BY <1>5 DEF Fan!Dispatch
  <2> QED BY <2>1, <1>0, <1>1, <1>5, LaunchKeeps
<1>6. CASE /\ ~(Fan!Halts(isAborted, isClosed) \/ next = Len(targets))
           /\ ~(Fan!Cardinality(workers) >= fanoutConfig.concurrency) /\ fanoutConfig.spacing /\ next # 0
  <2>1. pc' = "gap" /\ inFlight' = workers /\ class' = classes /\ next' = next /\ fanoutOutput' = fanoutOutput
    BY <1>6 DEF Fan!Dispatch
  <2>2. Fan!TypeOK'
    <3>1. aborted' \in BOOLEAN /\ fanoutClosed' \in BOOLEAN
      BY DEF Frame
    <3> QED BY <2>1, <3>1 DEF Fan!TypeOK, Frame, Fan!Awaits, PoolReady, Accounted
  <2>3. Pooled'
    BY <2>1 DEF Pooled, PoolReady, Accounted, HasError, Frame
  <2>4. AwaitsForAReason' /\ Unhurt'
    <3>1. Fan!Cardinality(inFlight') < fanoutConfig.concurrency /\ next' < Len(targets)
      BY <1>0, <1>1, <1>6, <2>1, Below, Zenon
    <3> QED BY <2>1, <3>1 DEF AwaitsForAReason, Running, Unhurt, Frame, Distinct, BroadcastAlone
  <2>5. ErrorsNoticed'
    BY <2>1 DEF ErrorsNoticed, HasError, PoolReady, Frame
  <2> QED BY <2>1, <2>2, <2>3, <2>4, <2>5 DEF FanoutInv, Fan!ReportAccounts
<1> QED BY <1>2, <1>3, <1>4, <1>5, <1>6

\* A worker that settles, whatever the dispatcher awaits.
LEMMA WakeKeeps ==
  ASSUME Fan!TypeOK, Running, AwaitsForAReason,
         NEW workers \in SUBSET inFlight, NEW classes, NEW isAborted \in BOOLEAN, NEW isClosed \in BOOLEAN,
         PoolReady(workers, classes, isAborted),
         aborted \/ fanoutClosed => isAborted \/ isClosed,
         Fan!Wake(workers, classes, isAborted, isClosed), Frame(isAborted, isClosed)
  PROVE  FanoutInv'
<1>0. Distinct /\ fanoutOutput = "none" /\ BroadcastAlone
  BY DEF AwaitsForAReason
<1>1. CASE pc = "race"
  <2>1. Fan!Dispatch(workers, classes, isAborted, isClosed)
    BY <1>1 DEF Fan!Wake
  <2> QED BY <1>0, <2>1, DispatchKeeps
<1>2. CASE pc = "drain"
  <2>1. Fan!Drain(workers, classes, isAborted, isClosed)
    BY <1>2 DEF Fan!Wake
  <2>2. isAborted \/ isClosed \/ next = Len(targets)
    BY <1>2 DEF AwaitsForAReason
  <2> QED BY <1>0, <2>1, <2>2, DrainKeeps
<1>3. CASE pc = "gap"
  <2>1. /\ inFlight' = workers /\ class' = classes
        /\ next' = next /\ pc' = pc /\ fanoutOutput' = fanoutOutput
    BY <1>3 DEF Fan!Wake
  <2>2. Fan!Cardinality(workers) < fanoutConfig.concurrency
    <3>1. IsFiniteSet(inFlight)
      BY Shape DEF Fan!TypeOK
    <3>2. Fan!Cardinality(workers) <= Fan!Cardinality(inFlight) /\ IsFiniteSet(workers)
      BY <3>1, PoolSubset
    <3>3. Fan!Cardinality(workers) \in Nat /\ Fan!Cardinality(inFlight) \in Nat
      BY <3>1, <3>2, PoolSize
    <3>4. Fan!Cardinality(inFlight) < fanoutConfig.concurrency /\ fanoutConfig.concurrency \in Nat
      BY <1>3, Shape DEF AwaitsForAReason
    <3> QED BY <3>2, <3>3, <3>4
  <2>3. Fan!TypeOK'
    <3>1. aborted' \in BOOLEAN /\ fanoutClosed' \in BOOLEAN
      BY DEF Frame
    <3> QED BY <2>1, <3>1 DEF Fan!TypeOK, Frame, PoolReady, Accounted
  <2>4. Pooled'
    BY <2>1 DEF Pooled, PoolReady, Accounted, HasError, Frame
  <2>5. AwaitsForAReason' /\ Unhurt'
    BY <1>3, <2>1, <2>2 DEF AwaitsForAReason, Running, Unhurt, Frame, Distinct, BroadcastAlone
  <2>6. ErrorsNoticed'
    BY <2>1 DEF ErrorsNoticed, HasError, PoolReady, Frame
  <2> QED BY <1>0, <1>3, <2>1, <2>3, <2>4, <2>5, <2>6 DEF FanoutInv, Fan!ReportAccounts
<1> QED BY <1>1, <1>2, <1>3 DEF Running

-----------------------------------------------------------------------------
\* The invariant holds before the message comes in.
LEMMA FanoutInit == Fan!Init => FanoutInv
<1> SUFFICES ASSUME NEW settings \in Fan!Configs, NEW list \in Fan!TargetLists, Fan!Start(settings, list)
             PROVE  FanoutInv
  BY DEF Fan!Init
<1>1. PICK n \in 0..MaxTargets : list \in [1..n -> Sysids \cup {Fan!Broadcast}]
  BY DEF Fan!TargetLists
<1>2. n \in Nat
  BY <1>1, FanoutBounds
<1>3. list \in Seq(Sysids \cup {Fan!Broadcast})
  BY <1>1, <1>2
<1>4. targets \in Seq(Sysids \cup {Fan!Broadcast})
  <2>1. targets = list \/ targets = <<Fan!Broadcast>>
    BY Zenon DEF Fan!Start, Fan!Expand
  <2>2. <<Fan!Broadcast>> \in Seq(Sysids \cup {Fan!Broadcast})
    OBVIOUS
  <2> QED BY <1>3, <2>1, <2>2
<1>5. BroadcastAlone
  BY DEF Fan!Start, Fan!Expand, BroadcastAlone
<1>6. Fan!TypeOK
  <2>1. aborted \in BOOLEAN /\ fanoutClosed \in BOOLEAN
    BY Zenon DEF Fan!Start
  <2>2. Len(targets) \in Nat
    BY <1>4
  <2> QED BY <1>4, <2>1, <2>2 DEF Fan!Start, Fan!TypeOK, Fan!Classes, Fan!Awaits, Fan!Outputs
<1>7. ~HasError(class) /\ ~aborted
  BY DEF Fan!Start, HasError, IsError
<1>8. Pooled
  <2>1. Fan!Cardinality({}) = 0 /\ fanoutConfig.concurrency \in Nat
    BY <1>6, Shape, PoolEmpty
  <2>2. Accounted(inFlight, class)
    <3>1. \A t \in DOMAIN targets : t > 0
      BY <1>4
    <3> QED BY <3>1 DEF Fan!Start, Accounted, Fan!Classes
  <2> QED BY <1>7, <2>1, <2>2 DEF Fan!Start, Pooled, PoolReady
<1>9. AwaitsForAReason /\ Unhurt /\ ErrorsNoticed
  BY <1>5, <1>7 DEF Fan!Start, AwaitsForAReason, Running, Unhurt, ErrorsNoticed
<1> QED BY <1>6, <1>8, <1>9 DEF FanoutInv, Fan!Start, Fan!ReportAccounts

\* A message that is not refused names every vehicle once.
LEMMA AcceptedOnce == ASSUME ~Fan!Refused, BroadcastAlone PROVE Distinct
<1>1. CASE fanoutConfig.broadcast
  <2>1. targets = <<Fan!Broadcast>>
    BY <1>1 DEF BroadcastAlone
  <2> QED BY <2>1 DEF Distinct
<1>2. CASE ~fanoutConfig.broadcast
  BY <1>2 DEF Fan!Refused, Fan!WellFormed, Distinct
<1> QED BY <1>1, <1>2

\* The turn of the input.
LEMMA InputKeeps == ASSUME FanoutInv, Fan!Input PROVE FanoutInv'
<1>0. /\ pc = "input" /\ ~fanoutClosed /\ Frame(aborted, fanoutClosed) /\ Fan!TypeOK /\ BroadcastAlone
      /\ inFlight = {} /\ next = 0 /\ fanoutOutput = "none" /\ PoolReady(inFlight, class, aborted)
  BY DEF Fan!Input, Frame, FanoutInv, AwaitsForAReason, Pooled, Running
<1>1. CASE Fan!EndsEarly
  <2>1. /\ pc' = "done" /\ fanoutOutput' \in {"error", "dryrun"} /\ next' = next
        /\ inFlight' = inFlight /\ class' = class
    BY <1>1 DEF Fan!EndsEarly
  <2>2. Fan!TypeOK'
    BY <1>0, <2>1 DEF Fan!TypeOK, Frame, Fan!Awaits, Fan!Outputs
  <2> QED BY <1>0, <2>1, <2>2 DEF FanoutInv, Frame, Pooled, AwaitsForAReason, Running, ErrorsNoticed, HasError,
                           Unhurt, Fan!ReportAccounts, BroadcastAlone
<1>2. CASE ~Fan!Refused /\ Fan!Emits
  <2>1. /\ fanoutOutput' = "messages" /\ inFlight' = inFlight /\ class' = class
        /\ \/ pc' = "pacing" /\ next' = 1 /\ Len(targets) > 1
           \/ pc' = "done" /\ next' = Len(targets)
    BY <1>2 DEF Fan!Emits
  <2>2. Len(targets) \in Nat
    BY <1>0, Shape
  <2>3. Fan!TypeOK'
    BY <1>0, <2>1, <2>2 DEF Fan!TypeOK, Frame, Fan!Awaits, Fan!Outputs
  <2>4. ~HasError(class)
    BY <1>0, <2>2 DEF PoolReady, Accounted, HasError, IsError, Fan!TypeOK
  <2> QED BY <1>0, <2>1, <2>2, <2>3, <2>4 DEF FanoutInv, Frame, Pooled, AwaitsForAReason, Running, ErrorsNoticed,
                           HasError, Unhurt, Fan!ReportAccounts, BroadcastAlone
<1>3. CASE ~Fan!Refused /\ Fan!Dispatch({}, class, aborted, fanoutClosed)
  <2>1. aborted \in BOOLEAN /\ fanoutClosed \in BOOLEAN
    BY <1>0 DEF Fan!TypeOK
  <2>2. Distinct
    BY <1>0, <1>3, AcceptedOnce
  <2> QED BY <1>0, <1>3, <2>1, <2>2, DispatchKeeps
<1> QED BY <1>1, <1>2, <1>3 DEF Fan!Input

\* Workers settle: the pool the dispatcher looks at next is accounted for, and
\* an error that was there is there still.
LEMMA SettleReady ==
  ASSUME FanoutInv, Running, NEW workers \in SUBSET inFlight, NEW result \in [workers -> Fan!Results]
  PROVE  LET classes == [t \in DOMAIN targets |-> IF t \in workers THEN result[t] ELSE class[t]]
         IN  /\ PoolReady(inFlight \ workers, classes, Fan!Aborts(classes, inFlight \ workers))
             /\ Fan!Aborts(classes, inFlight \ workers) \in BOOLEAN
             /\ aborted => Fan!Aborts(classes, inFlight \ workers)
<1> DEFINE classes == [t \in DOMAIN targets |-> IF t \in workers THEN result[t] ELSE class[t]]
           rest == inFlight \ workers
           errors == fanoutConfig.stopOnError /\ HasError(classes)
<1>0. Fan!TypeOK /\ PoolReady(inFlight, class, aborted)
  BY DEF FanoutInv, AwaitsForAReason, Pooled
<1>1. DOMAIN classes = DOMAIN targets
  OBVIOUS
<1>2. Fan!Aborts(classes, rest) <=> errors
  BY <1>1 DEF Fan!Aborts, HasError, IsError
<1>3. Fan!Aborts(classes, rest) \in BOOLEAN /\ fanoutConfig.stopOnError \in BOOLEAN
  BY <1>0, Shape DEF Fan!Aborts
<1>4. Accounted(rest, classes)
  <2>1. \A t \in workers : t \in DOMAIN targets /\ result[t] \in Fan!Results
    BY <1>0 DEF PoolReady
  <2>2. classes \in [DOMAIN targets -> Fan!Classes]
    BY <1>0, <2>1 DEF PoolReady, Accounted, Fan!Classes
  <2>3. ASSUME NEW t \in DOMAIN targets
        PROVE  (classes[t] = "none" <=> (t \in rest \/ t > next)) /\ classes[t] # "skipped"
    <3>1. CASE t \in workers
      <4>1. classes[t] \in Fan!Results /\ t <= next /\ t \in Nat /\ next \in Nat
        BY <1>0, <2>1, <3>1, Shape DEF PoolReady
      <4> QED BY <3>1, <4>1 DEF Fan!Results
    <3>2. CASE t \notin workers
      BY <1>0, <3>2 DEF PoolReady, Accounted
    <3> QED BY <3>1, <3>2
  <2> QED BY <2>2, <2>3 DEF Accounted
<1>5. Fan!Cardinality(rest) <= fanoutConfig.concurrency
  <2>1. IsFiniteSet(inFlight) /\ Fan!Cardinality(inFlight) \in Nat /\ fanoutConfig.concurrency \in Nat
    BY <1>0, Shape DEF Fan!TypeOK
  <2>2. IsFiniteSet(rest) /\ Fan!Cardinality(rest) <= Fan!Cardinality(inFlight)
    BY <2>1, PoolSubset
  <2>3. Fan!Cardinality(rest) \in Nat
    BY <2>2, PoolSize
  <2>4. Fan!Cardinality(inFlight) <= fanoutConfig.concurrency
    BY <1>0 DEF PoolReady
  <2> QED BY <2>1, <2>2, <2>3, <2>4
<1>6. PoolReady(rest, classes, Fan!Aborts(classes, rest))
  BY <1>0, <1>2, <1>4, <1>5 DEF PoolReady
<1>7. aborted => Fan!Aborts(classes, rest)
  <2>1. HasError(class) => HasError(classes)
    BY <1>0 DEF PoolReady, Accounted, HasError, IsError, Fan!TypeOK
  <2> QED BY <1>0, <1>2, <2>1 DEF PoolReady
<1> HIDE DEF classes, rest
<1> QED BY <1>3, <1>6, <1>7 DEF classes, rest

\* Workers settle while the input handler awaits them.
LEMMA SettleKeeps ==
  ASSUME FanoutInv, NEW workers \in SUBSET inFlight, NEW result \in [workers -> Fan!Results],
         Fan!Settle(workers, result)
  PROVE  FanoutInv' /\ Running /\ (aborted => aborted')
<1> DEFINE classes == [t \in DOMAIN targets |-> IF t \in workers THEN result[t] ELSE class[t]]
           rest == inFlight \ workers
<1>1. /\ workers # {} /\ aborted' = Fan!Aborts(classes, rest)
      /\ Fan!Wake(rest, classes, aborted', fanoutClosed) /\ UNCHANGED <<fanoutConfig, targets, fanoutClosed>>
  BY DEF Fan!Settle
<1>2. Fan!TypeOK /\ AwaitsForAReason /\ Running /\ rest \in SUBSET inFlight
  BY <1>1 DEF FanoutInv, AwaitsForAReason
<1>3. /\ PoolReady(rest, classes, Fan!Aborts(classes, rest)) /\ Fan!Aborts(classes, rest) \in BOOLEAN
      /\ aborted => Fan!Aborts(classes, rest)
  BY <1>2, SettleReady
<1>4. fanoutClosed \in BOOLEAN /\ Frame(Fan!Aborts(classes, rest), fanoutClosed)
  BY <1>1, <1>2 DEF Fan!TypeOK, Frame
<1> HIDE DEF classes, rest
<1>5. Fan!Wake(rest, classes, Fan!Aborts(classes, rest), fanoutClosed)
  BY <1>1
<1> QED BY <1>1, <1>2, <1>3, <1>4, <1>5, WakeKeeps

\* The close of a node whose workflows are aborted, and of any other.
LEMMA CloseKeeps == ASSUME FanoutInv, Fan!Close PROVE FanoutInv'
<1>0. Fan!TypeOK /\ AwaitsForAReason
  BY DEF FanoutInv
<1>1. CASE fanoutConfig.delivery = "await" /\ inFlight # {}
  <2> DEFINE classes == [t \in DOMAIN targets |-> IF t \in inFlight THEN "failed" ELSE class[t]]
             result == [t \in inFlight |-> "failed"]
  <2>1. /\ aborted' = Fan!Aborts(classes, {}) /\ Fan!Wake({}, classes, aborted', TRUE)
        /\ UNCHANGED <<fanoutConfig, targets>> /\ fanoutClosed' = TRUE
    BY <1>1 DEF Fan!Close
  <2>2. Running
    BY <1>0, <1>1 DEF AwaitsForAReason
  <2>3. result \in [inFlight -> Fan!Results] /\ inFlight \in SUBSET inFlight /\ inFlight \ inFlight = {}
    BY DEF Fan!Results
  <2>4. classes = [t \in DOMAIN targets |-> IF t \in inFlight THEN result[t] ELSE class[t]]
    OBVIOUS
  <2> HIDE DEF classes, result
  <2>5. PoolReady({}, classes, Fan!Aborts(classes, {})) /\ Fan!Aborts(classes, {}) \in BOOLEAN
    BY <2>2, <2>3, <2>4, SettleReady
  <2>6. Fan!Wake({}, classes, Fan!Aborts(classes, {}), TRUE) /\ Frame(Fan!Aborts(classes, {}), TRUE)
    BY <2>1 DEF Frame
  <2> QED BY <1>0, <2>2, <2>5, <2>6, WakeKeeps
<1>2. CASE ~(fanoutConfig.delivery = "await" /\ inFlight # {})
  <2>1. UNCHANGED <<fanoutConfig, targets, next, inFlight, class, aborted, pc, fanoutOutput>> /\ fanoutClosed' = TRUE
    BY <1>2 DEF Fan!Close
  <2>2. Fan!TypeOK'
    BY <1>0, <2>1 DEF Fan!TypeOK
  <2> QED BY <2>1, <2>2 DEF FanoutInv, Pooled, PoolReady, Accounted, HasError, AwaitsForAReason, Running, Distinct,
                       BroadcastAlone, ErrorsNoticed, Unhurt, Fan!ReportAccounts, Fan!Errors
<1> QED BY <1>1, <1>2

\* The end of a gap between two dispatches.
LEMMA GapKeeps == ASSUME FanoutInv, Fan!GapEnds PROVE FanoutInv'
<1>1. /\ Fan!TypeOK /\ Running /\ PoolReady(inFlight, class, aborted) /\ Distinct /\ fanoutOutput = "none"
      /\ BroadcastAlone /\ Fan!Cardinality(inFlight) < fanoutConfig.concurrency /\ next < Len(targets)
      /\ Frame(aborted, fanoutClosed) /\ aborted \in BOOLEAN /\ fanoutClosed \in BOOLEAN
  BY DEF Fan!GapEnds, Frame, FanoutInv, Pooled, AwaitsForAReason, Running, Fan!TypeOK
<1>2. CASE Fan!Halts(aborted, fanoutClosed) /\ Fan!Drain(inFlight, class, aborted, fanoutClosed)
  BY <1>1, <1>2, DrainKeeps DEF Fan!Halts
<1>3. CASE Fan!Launch(1, inFlight, class)
  <2>1. Fan!Cardinality(inFlight) \in Nat /\ fanoutConfig.concurrency \in Nat /\ Len(targets) \in Nat /\ next \in Nat
    BY <1>1, Shape DEF PoolReady
  <2>2. next + 1 <= Len(targets) /\ Fan!Cardinality(inFlight) + 1 <= fanoutConfig.concurrency /\ 1 \in Nat
    BY <1>1, <2>1, Below
  <2> QED BY <1>1, <1>3, <2>2, LaunchKeeps
<1> QED BY <1>2, <1>3 DEF Fan!GapEnds

\* The next message of a paced build.
LEMMA PaceKeeps == ASSUME FanoutInv, Fan!PaceEnds PROVE FanoutInv'
<1>1. /\ Fan!TypeOK /\ pc = "pacing" /\ next < Len(targets) /\ fanoutOutput = "messages" /\ inFlight = {}
      /\ UNCHANGED <<fanoutConfig, targets, inFlight, class, aborted, fanoutClosed, fanoutOutput>>
      /\ next' \in {next, next + 1} /\ pc' \in {"done", "pacing"}
      /\ pc' = "pacing" => next' = next + 1 /\ next' # Len(targets)
  BY DEF Fan!PaceEnds, FanoutInv, AwaitsForAReason, Running
<1>2. Len(targets) \in Nat /\ next \in Nat
  BY <1>1, Shape
<1>3. Fan!TypeOK'
  BY <1>1, <1>2 DEF Fan!TypeOK, Fan!Awaits
<1>4. pc' = "pacing" => next' < Len(targets)
  BY <1>1, <1>2
<1> QED BY <1>1, <1>3, <1>4 DEF FanoutInv, Pooled, AwaitsForAReason, Running, BroadcastAlone, ErrorsNoticed, HasError,
                       Unhurt, Fan!ReportAccounts

\* Every step keeps the invariant.
LEMMA FanoutNext == ASSUME FanoutInv, [Fan!Next]_(Fan!vars) PROVE FanoutInv'
<1>1. CASE Fan!Works
  <2>1. PICK workers \in SUBSET inFlight : \E result \in [workers -> Fan!Results] : Fan!Settle(workers, result)
    BY <1>1 DEF Fan!Works
  <2> QED BY <2>1, SettleKeeps
<1>2. CASE UNCHANGED Fan!vars
  BY <1>2 DEF Fan!vars, FanoutInv, Fan!TypeOK, Pooled, PoolReady, Accounted, HasError, AwaitsForAReason, Running, Distinct,
              BroadcastAlone, ErrorsNoticed, Unhurt, Fan!ReportAccounts, Fan!Errors
<1> QED BY <1>1, <1>2, InputKeeps, GapKeeps, PaceKeeps, CloseKeeps DEF Fan!Next

\* "The caller sees exactly which vehicles were not commanded": a report
\* accounts for every vehicle, for any list and any number of workers, and
\* the fan-out keeps its types.
THEOREM EveryVehicleReported == Fan!Spec => [](Fan!TypeOK /\ Fan!ReportAccounts)
<1>1. FanoutInv /\ [Fan!Next]_(Fan!vars) => FanoutInv'
  BY FanoutNext
<1>2. FanoutInv => Fan!TypeOK /\ Fan!ReportAccounts
  BY DEF FanoutInv
<1> QED BY FanoutInit, <1>1, <1>2, PTL DEF Fan!Spec

\* No more commands are under way than there are workers configured.
THEOREM WorkersBounded == Fan!Spec => []Fan!WithinConcurrency
<1>1. FanoutInv /\ [Fan!Next]_(Fan!vars) => FanoutInv'
  BY FanoutNext
<1>2. ASSUME FanoutInv PROVE Fan!WithinConcurrency
  <2>1. CASE Running
    BY <1>2, <2>1 DEF FanoutInv, Pooled, PoolReady, Fan!WithinConcurrency
  <2>2. CASE ~Running
    <3>1. inFlight = {} /\ fanoutConfig.concurrency \in Nat
      BY <1>2, <2>2, Shape DEF FanoutInv, AwaitsForAReason
    <3> QED BY <3>1, PoolEmpty DEF Fan!WithinConcurrency
  <2> QED BY <2>1, <2>2
<1> QED BY FanoutInit, <1>1, <1>2, PTL DEF Fan!Spec

-----------------------------------------------------------------------------
\* Once it is to halt, the dispatcher only waits for the workers that run.
LEMMA WakeHalts ==
  ASSUME NEW workers, NEW classes, NEW isAborted \in BOOLEAN, NEW isClosed \in BOOLEAN,
         isAborted \/ isClosed, Fan!Wake(workers, classes, isAborted, isClosed)
  PROVE  next' = next /\ (isClosed => fanoutOutput' = fanoutOutput)
<1>1. Fan!Drain(workers, classes, isAborted, isClosed) => next' = next /\ (isClosed => fanoutOutput' = fanoutOutput)
  BY DEF Fan!Drain, Fan!Finish
<1>2. Fan!Dispatch(workers, classes, isAborted, isClosed) => Fan!Drain(workers, classes, isAborted, isClosed)
  BY DEF Fan!Dispatch, Fan!Halts
<1> QED BY <1>1, <1>2 DEF Fan!Wake

\* "A closed node stops fanning out to the remaining targets", and with
\* stop-on-error nothing is commanded after the first error, though it comes
\* while other workers run or a gap passes.
THEOREM DispatchHalts == Fan!Spec => Fan!HaltsDispatch
<1>1. ASSUME FanoutInv, [Fan!Next]_(Fan!vars), aborted \/ fanoutClosed
      PROVE  next' = next /\ (fanoutClosed => fanoutOutput' = fanoutOutput)
  <2>0. aborted \in BOOLEAN /\ fanoutClosed \in BOOLEAN
    BY <1>1 DEF FanoutInv, Fan!TypeOK
  <2>1. CASE Fan!Input
    <3>1. pc = "input" /\ ~fanoutClosed /\ PoolReady(inFlight, class, aborted) /\ inFlight = {} /\ next = 0
      BY <1>1, <2>1 DEF Fan!Input, FanoutInv, Pooled, AwaitsForAReason, Running
    <3>2. ~HasError(class)
      <4>1. \A t \in DOMAIN targets : t > next
        BY <1>1, <3>1, Shape DEF FanoutInv
      <4> QED BY <3>1, <4>1 DEF PoolReady, Accounted, HasError, IsError
    <3> QED BY <1>1, <3>1, <3>2 DEF PoolReady
  <2>2. ASSUME NEW workers \in SUBSET inFlight, NEW result \in [workers -> Fan!Results], Fan!Settle(workers, result)
        PROVE  next' = next /\ (fanoutClosed => fanoutOutput' = fanoutOutput)
    <3>1. (aborted => aborted') /\ aborted' \in BOOLEAN
      BY <1>1, <2>2, SettleKeeps DEF FanoutInv, Fan!TypeOK
    <3> DEFINE classes == [t \in DOMAIN targets |-> IF t \in workers THEN result[t] ELSE class[t]]
    <3>2. Fan!Wake(inFlight \ workers, classes, aborted', fanoutClosed)
      BY <2>2 DEF Fan!Settle
    <3>3. aborted' \/ fanoutClosed
      BY <1>1, <3>1
    <3> HIDE DEF classes
    <3>4. ASSUME NEW isAborted \in BOOLEAN, isAborted = aborted'
          PROVE  next' = next /\ (fanoutClosed => fanoutOutput' = fanoutOutput)
      <4>1. Fan!Wake(inFlight \ workers, classes, isAborted, fanoutClosed)
        BY <3>2, <3>4
      <4> QED BY <2>0, <3>3, <3>4, <4>1, WakeHalts
    <3> QED BY <3>1, <3>4
  <2>3. CASE Fan!GapEnds
    <3>1. Fan!Drain(inFlight, class, aborted, fanoutClosed)
      BY <1>1, <2>3 DEF Fan!GapEnds, Fan!Halts
    <3> QED BY <3>1 DEF Fan!Drain, Fan!Finish
  <2>4. CASE Fan!PaceEnds
    <3>1. ~aborted
      BY <1>1, <2>4 DEF Fan!PaceEnds, FanoutInv, Unhurt, ErrorsNoticed
    <3> QED BY <1>1, <2>4, <3>1 DEF Fan!PaceEnds
  <2>5. CASE Fan!Close
    <3>1. ~fanoutClosed
      BY <2>5 DEF Fan!Close
    <3>2. CASE fanoutConfig.delivery = "await" /\ inFlight # {}
      <4> DEFINE classes == [t \in DOMAIN targets |-> IF t \in inFlight THEN "failed" ELSE class[t]]
      <4>1. Fan!Wake({}, classes, aborted', TRUE) /\ aborted' \in BOOLEAN
        BY <1>1, <2>5, <3>2, CloseKeeps DEF Fan!Close, FanoutInv, Fan!TypeOK
      <4> HIDE DEF classes
      <4>2. ASSUME NEW isAborted \in BOOLEAN, isAborted = aborted' PROVE next' = next
        <5>1. Fan!Wake({}, classes, isAborted, TRUE)
          BY <4>1, <4>2
        <5> QED BY <5>1, WakeHalts
      <4> QED BY <3>1, <4>1, <4>2
    <3>3. CASE ~(fanoutConfig.delivery = "await" /\ inFlight # {})
      BY <2>5, <3>1, <3>3 DEF Fan!Close
    <3> QED BY <3>2, <3>3
  <2>6. CASE UNCHANGED Fan!vars
    BY <2>6 DEF Fan!vars
  <2> QED BY <1>1, <2>1, <2>2, <2>3, <2>4, <2>5, <2>6 DEF Fan!Next, Fan!Works
<1>2. ASSUME FanoutInv, fanoutConfig.stopOnError, Fan!Errors # {}
      PROVE  aborted
  BY <1>2 DEF FanoutInv, Fan!TypeOK, ErrorsNoticed, HasError, IsError, Fan!Errors
<1>3. FanoutInv /\ [Fan!Next]_(Fan!vars) => FanoutInv'
  BY FanoutNext
<1> QED BY FanoutInit, <1>1, <1>2, <1>3, PTL DEF Fan!Spec, Fan!HaltsDispatch

-----------------------------------------------------------------------------
\* A launch leaves workers to await, if there were some or if it has a target.
LEMMA LaunchAwaits ==
  ASSUME Fan!TypeOK, NEW workers, NEW classes, NEW k \in Nat, next + k <= Len(targets),
         workers # {} \/ k # 0, Fan!Launch(k, workers, classes)
  PROVE  Fan!AwaitsWorkers'
<1>1. k # 0 => next + k \in Fan!Launched(k)
  BY Shape DEF Fan!Launched
<1>2. inFlight' = workers \cup Fan!Launched(k)
  BY DEF Fan!Launch
<1>3. inFlight' # {}
  BY <1>1, <1>2
<1> QED BY <1>3 DEF Fan!AwaitsWorkers

LEMMA DrainAwaits ==
  ASSUME NEW workers, NEW classes, NEW isAborted, NEW isClosed,
         Fan!Drain(workers, classes, isAborted, isClosed)
  PROVE  Fan!AwaitsWorkers'
BY DEF Fan!Drain, Fan!Finish, Fan!AwaitsWorkers

\* The dispatcher waits for a worker only when all of them are busy or every
\* target is with one.
LEMMA DispatchAwaits ==
  ASSUME Fan!TypeOK, NEW workers, NEW classes, NEW isAborted, NEW isClosed,
         workers \subseteq DOMAIN targets,
         Fan!Dispatch(workers, classes, isAborted, isClosed)
  PROVE  Fan!AwaitsWorkers'
<1>0. /\ Len(targets) \in Nat /\ next \in Nat /\ next <= Len(targets)
      /\ fanoutConfig.concurrency \in Nat /\ fanoutConfig.concurrency # 0
      /\ Fan!Cardinality(workers) \in Nat
  BY Shape, FanoutBounds DEF Fan!TypeOK, Fan!Configs
<1> DEFINE ready == ~(Fan!Halts(isAborted, isClosed) \/ next = Len(targets))
           full == Fan!Cardinality(workers) >= fanoutConfig.concurrency
           k == Fan!Smaller(fanoutConfig.concurrency - Fan!Cardinality(workers), Len(targets) - next)
<1>1. CASE ~ready
  BY <1>1, DrainAwaits DEF Fan!Dispatch
<1>2. CASE ready /\ full
  <2>1. Fan!Launch(0, workers, classes)
    BY <1>2 DEF Fan!Dispatch
  <2>2. workers # {}
    <3>1. Fan!Cardinality(workers) # 0
      BY <1>0, <1>2
    <3> QED BY <3>1, PoolEmpty, Zenon
  <2>3. next + 0 <= Len(targets) /\ 0 \in Nat
    BY <1>0
  <2> QED BY <2>1, <2>2, <2>3, LaunchAwaits
<1>3. CASE ready /\ ~full /\ ~fanoutConfig.spacing
  <2>1. Fan!Launch(k, workers, classes)
    BY <1>3 DEF Fan!Dispatch
  <2>2. Fan!Cardinality(workers) < fanoutConfig.concurrency /\ next < Len(targets)
    BY <1>0, <1>3, Below, Zenon
  <2>3. k \in Nat /\ k # 0 /\ next + k <= Len(targets)
    BY <1>0, <2>2 DEF Fan!Smaller
  <2> HIDE DEF k
  <2> QED BY <2>1, <2>3, LaunchAwaits
<1>4. CASE ready /\ ~full /\ fanoutConfig.spacing /\ next = 0
  <2>1. Fan!Launch(1, workers, classes)
    BY <1>4 DEF Fan!Dispatch
  <2>2. next + 1 <= Len(targets) /\ 1 \in Nat /\ 1 # 0
    BY <1>0, <1>4
  <2> QED BY <2>1, <2>2, LaunchAwaits
<1>5. CASE ready /\ ~full /\ fanoutConfig.spacing /\ next # 0
  <2>1. pc' = "gap"
    BY <1>5 DEF Fan!Dispatch
  <2> QED BY <2>1 DEF Fan!AwaitsWorkers
<1> QED BY <1>1, <1>2, <1>3, <1>4, <1>5

\* Workers that settle, and an abort of all of them, wake a dispatcher that
\* awaited them.
LEMMA WakeAwaits ==
  ASSUME Fan!TypeOK, NEW workers, NEW classes, NEW isAborted, NEW isClosed,
         workers \subseteq DOMAIN targets,
         Fan!Wake(workers, classes, isAborted, isClosed)
  PROVE  Fan!AwaitsWorkers'
<1>1. CASE pc = "race"
  BY <1>1, DispatchAwaits DEF Fan!Wake
<1>2. CASE pc = "drain"
  BY <1>2, DrainAwaits DEF Fan!Wake
<1>3. CASE pc \notin {"race", "drain"}
  <2>1. pc' = pc
    BY <1>3 DEF Fan!Wake
  <2> QED BY <1>3, <2>1 DEF Fan!AwaitsWorkers
<1> QED BY <1>1, <1>2, <1>3

LEMMA AwaitsNext ==
  ASSUME FanoutInv, Fan!AwaitsWorkers, [Fan!Next]_(Fan!vars) PROVE Fan!AwaitsWorkers'
<1>0. Fan!TypeOK /\ inFlight \subseteq DOMAIN targets
  BY DEF FanoutInv, Fan!TypeOK
<1>1. CASE Fan!Input
  <2>1. CASE Fan!Dispatch({}, class, aborted, fanoutClosed)
    BY <1>0, <2>1, DispatchAwaits
  <2>2. CASE Fan!EndsEarly \/ Fan!Emits
    <3>1. pc' \in {"done", "pacing"}
      BY <2>2 DEF Fan!EndsEarly, Fan!Emits
    <3> QED BY <3>1 DEF Fan!AwaitsWorkers
  <2> QED BY <1>1, <2>1, <2>2 DEF Fan!Input
<1>2. CASE Fan!Works
  <2>1. PICK workers \in SUBSET inFlight : \E result \in [workers -> Fan!Results] : Fan!Settle(workers, result)
    BY <1>2 DEF Fan!Works
  <2>2. \E classes, isAborted : Fan!Wake(inFlight \ workers, classes, isAborted, fanoutClosed)
    BY <2>1 DEF Fan!Settle
  <2> QED BY <1>0, <2>2, WakeAwaits
<1>3. CASE Fan!GapEnds
  <2>1. CASE Fan!Drain(inFlight, class, aborted, fanoutClosed)
    BY <2>1, DrainAwaits
  <2>2. CASE Fan!Launch(1, inFlight, class)
    <3>1. next + 1 <= Len(targets) /\ 1 \in Nat /\ 1 # 0
      <4>1. next < Len(targets)
        BY <1>3 DEF FanoutInv, AwaitsForAReason, Fan!GapEnds
      <4> QED BY <1>0, <4>1, Shape
    <3> QED BY <1>0, <2>2, <3>1, LaunchAwaits
  <2> QED BY <1>3, <2>1, <2>2 DEF Fan!GapEnds
<1>4. CASE Fan!PaceEnds
  <2>1. pc' \in {"done", "pacing"}
    BY <1>4 DEF Fan!PaceEnds
  <2> QED BY <2>1 DEF Fan!AwaitsWorkers
<1>5. CASE Fan!Close
  <2>1. CASE UNCHANGED <<pc, inFlight>>
    BY <2>1 DEF Fan!AwaitsWorkers
  <2>2. ASSUME NEW classes, NEW isAborted, Fan!Wake({}, classes, isAborted, TRUE)
        PROVE  Fan!AwaitsWorkers'
    <3>1. CASE pc = "race"
      <4>1. Fan!Drain({}, classes, isAborted, TRUE)
        BY <2>2, <3>1 DEF Fan!Wake, Fan!Dispatch, Fan!Halts
      <4> QED BY <4>1 DEF Fan!Drain, Fan!Finish, Fan!AwaitsWorkers
    <3>2. CASE pc = "drain"
      BY <2>2, <3>2 DEF Fan!Wake, Fan!Drain, Fan!Finish, Fan!AwaitsWorkers
    <3>3. CASE pc \notin {"race", "drain"}
      BY <2>2, <3>3 DEF Fan!Wake, Fan!AwaitsWorkers
    <3> QED BY <3>1, <3>2, <3>3
  <2> QED BY <1>5, <2>1, <2>2 DEF Fan!Close
<1>6. CASE UNCHANGED Fan!vars
  BY <1>6 DEF Fan!vars, Fan!AwaitsWorkers
<1> QED BY <1>1, <1>2, <1>3, <1>4, <1>5, <1>6 DEF Fan!Next

\* Whatever settles, fails or is aborted, and in whatever turn: the input handler
\* of a fan-out never awaits a pool of workers that is empty.
THEOREM DispatcherNeverStuck == Fan!Spec => []Fan!AwaitsWorkers
<1>1. Fan!Init => Fan!AwaitsWorkers
  BY DEF Fan!Init, Fan!Start, Fan!AwaitsWorkers
<1>2. FanoutInv /\ [Fan!Next]_(Fan!vars) => FanoutInv'
  BY FanoutNext
<1>3. FanoutInv /\ Fan!AwaitsWorkers /\ [Fan!Next]_(Fan!vars) => Fan!AwaitsWorkers'
  BY AwaitsNext
<1> QED BY FanoutInit, <1>1, <1>2, <1>3, PTL DEF Fan!Spec

-----------------------------------------------------------------------------
(* The stream of a move node *)

\* A condition counts as one, so that the bound on the generations can be kept.
One(condition) == IF condition THEN 1 ELSE 0

StreamTyped ==
  /\ streaming \in BOOLEAN /\ expiry \in BOOLEAN /\ moveSending \in BOOLEAN
  /\ moveClosed \in BOOLEAN /\ ttl \in BOOLEAN /\ connected \in BOOLEAN
  /\ gen \in Nat /\ shots \in Nat
  /\ pending \in [Move!Generations -> Nat]
  /\ inputs \in 0..MaxInputs /\ moveDeploys \in 0..MoveDeploys

\* A generation ends by an input, a deploy, the close, or by the deadline that
\* an input has armed: they never run out.
GenerationsLast == gen + One(expiry) <= inputs + moveDeploys + One(moveClosed)

\* No send is under way of a generation still to come.
FutureIsEmpty == \A g \in Move!Generations : g > gen => pending[g] = 0

\* A timer or a send of the current generation has a stream.
OnlyStreams ==
  /\ expiry => streaming
  /\ moveSending => streaming
  /\ moveClosed => ~streaming
  /\ moveDelivery = "stream" => shots = 0

StreamInv == StreamTyped /\ GenerationsLast /\ FutureIsEmpty /\ Move!OneInFlight /\ OnlyStreams

-----------------------------------------------------------------------------
\* The invariant holds of a node just started.
LEMMA StreamInit == Move!Init => StreamInv
<1> SUFFICES ASSUME NEW mode \in {"build", "send", "stream"}, NEW limited \in BOOLEAN, Move!Start(mode, limited)
             PROVE  StreamInv
  BY DEF Move!Init
<1>1. streaming \in BOOLEAN /\ expiry \in BOOLEAN /\ moveSending \in BOOLEAN /\ moveClosed \in BOOLEAN
      /\ ttl \in BOOLEAN /\ connected \in BOOLEAN
  BY Zenon DEF Move!Start
<1>2. StreamTyped
  BY <1>1, NodesAssumption DEF Move!Start, StreamTyped
<1>3. One(expiry) = 0 /\ One(moveClosed) = 0
  BY Zenon DEF Move!Start, One
<1>4. GenerationsLast
  BY <1>3 DEF Move!Start, GenerationsLast
<1>5. FutureIsEmpty /\ Move!OneInFlight /\ OnlyStreams
  BY NodesAssumption DEF Move!Start, FutureIsEmpty, Move!OneInFlight, OnlyStreams, Move!Generations, Move!MaxGen
<1> QED BY <1>2, <1>4, <1>5 DEF StreamInv

\* There is always a generation left.
LEMMA GenInRange == ASSUME StreamInv PROVE gen \in Move!Generations /\ gen + 1 \in Move!Generations
  BY NodesAssumption DEF StreamInv, StreamTyped, GenerationsLast, One, Move!Generations, Move!MaxGen

\* To stop a stream is to leave its sends behind, whatever it was doing, when
\* the cause of the stop is counted.
LEMMA StopKeeps ==
  ASSUME StreamInv, Move!StopStream,
         pending' = pending, shots' = shots, moveDelivery' = moveDelivery, ttl' = ttl,
         connected' \in BOOLEAN, moveClosed' \in BOOLEAN,
         inputs' \in 0..MaxInputs, moveDeploys' \in 0..MoveDeploys,
         gen + 1 <= inputs' + moveDeploys' + One(moveClosed')
  PROVE  StreamInv'
<1>1. gen \in Move!Generations /\ gen + 1 \in Move!Generations
  BY GenInRange
<1>2. StreamTyped'
  <2>1. streaming' \in BOOLEAN /\ expiry' \in BOOLEAN /\ moveSending' \in BOOLEAN /\ ttl' \in BOOLEAN
    BY Zenon DEF Move!StopStream, StreamInv, StreamTyped
  <2>2. gen' \in Nat /\ shots' \in Nat /\ pending' \in [Move!Generations -> Nat]
    BY DEF Move!StopStream, StreamInv, StreamTyped
  <2> QED BY <2>1, <2>2 DEF StreamTyped
<1>3. GenerationsLast'
  <2>1. One(expiry') = 0
    BY Zenon DEF Move!StopStream, One
  <2> QED BY <2>1 DEF Move!StopStream, GenerationsLast, StreamInv, StreamTyped
<1>4. FutureIsEmpty'
  BY <1>1 DEF Move!StopStream, FutureIsEmpty, StreamInv, StreamTyped, Move!Generations, Move!MaxGen
<1>5. Move!OneInFlight'
  BY <1>1 DEF Move!StopStream, Move!OneInFlight, FutureIsEmpty, StreamInv, StreamTyped
<1>6. OnlyStreams'
  BY DEF Move!StopStream, OnlyStreams, StreamInv
<1> QED BY <1>2, <1>3, <1>4, <1>5, <1>6 DEF StreamInv

\* Every step keeps the invariant.
LEMMA StreamNext == ASSUME StreamInv, [Move!Next]_(Move!vars) PROVE StreamInv'
<1>0. gen \in Move!Generations /\ gen + 1 \in Move!Generations
  BY GenInRange
<1>a. /\ One(moveClosed) \in Nat /\ One(expiry) \in Nat
      /\ expiry => One(expiry) = 1
      /\ ~moveClosed => One(moveClosed) = 0
      /\ One(TRUE) = 1 /\ One(FALSE) = 0
  BY DEF One
<1>1. CASE Move!InputStops
  <2>1. /\ inputs' = inputs + 1 /\ inputs' \in 0..MaxInputs /\ moveClosed' = moveClosed /\ moveDeploys' = moveDeploys
    BY <1>1, NodesAssumption DEF Move!InputStops, Move!Accepts, StreamInv, StreamTyped
  <2>2. gen + 1 <= inputs' + moveDeploys' + One(moveClosed')
    BY <1>a, <2>1 DEF StreamInv, StreamTyped, GenerationsLast
  <2> QED BY <1>1, <2>1, <2>2, StopKeeps DEF Move!InputStops, Move!Accepts, StreamInv, StreamTyped
<1>2. CASE Move!InputRejected \/ Move!InputSends \/ Move!InputBuilds
  <2>1. /\ UNCHANGED <<moveDelivery, ttl, connected, Move!streamVars, pending, moveClosed, moveDeploys>>
        /\ inputs' = inputs + 1 /\ inputs' \in 0..MaxInputs
        /\ shots' \in Nat /\ (moveDelivery = "stream" => shots' = shots)
    BY <1>2, NodesAssumption DEF Move!InputRejected, Move!InputSends, Move!InputBuilds, Move!Accepts, StreamInv, StreamTyped
  <2> QED BY <1>a, <2>1 DEF StreamInv, StreamTyped, GenerationsLast, FutureIsEmpty, Move!OneInFlight, OnlyStreams,
                     Move!streamVars, One
<1>3. CASE Move!InputStreams
  <2>1. /\ streaming' = TRUE /\ expiry' \in BOOLEAN /\ gen' = gen /\ moveClosed = FALSE /\ moveClosed' = moveClosed
        /\ inputs' = inputs + 1 /\ inputs' \in 0..MaxInputs /\ moveDeploys' = moveDeploys /\ shots' = shots
        /\ moveDelivery' = moveDelivery /\ ttl' = ttl /\ connected' = connected
    BY <1>3, NodesAssumption DEF Move!InputStreams, Move!Accepts, Move!Arms, Move!streamVars, StreamInv, StreamTyped
  <2>2. /\ moveSending' \in BOOLEAN /\ pending' \in [Move!Generations -> Nat]
        /\ \A g \in Move!Generations : g # gen => pending'[g] = pending[g]
        /\ pending'[gen] = IF moveSending' THEN 1 ELSE 0
    <3> DEFINE sends == ~streaming /\ connected /\ ~moveSending
    <3>1. moveSending' = (moveSending \/ sends) /\ pending' = IF sends THEN [pending EXCEPT ![gen] = @ + 1] ELSE pending
      BY <1>3, Zenon DEF Move!InputStreams, Move!IssueIf, Move!Issues
    <3>2. CASE sends
      <4>1. moveSending' = TRUE /\ moveSending = FALSE /\ pending' = [pending EXCEPT ![gen] = @ + 1]
        BY <3>1, <3>2, Zenon DEF StreamInv, StreamTyped
      <4> QED BY <1>0, <4>1 DEF StreamInv, StreamTyped, Move!OneInFlight
    <3>3. CASE ~sends
      <4>1. moveSending' = moveSending /\ pending' = pending
        BY <3>1, <3>3, Zenon DEF StreamInv, StreamTyped
      <4> QED BY <4>1 DEF StreamInv, StreamTyped, Move!OneInFlight
    <3> QED BY <3>2, <3>3
  <2>3. StreamTyped'
    BY <2>1, <2>2 DEF StreamInv, StreamTyped
  <2>4. GenerationsLast'
    BY <2>1, <1>a DEF StreamInv, StreamTyped, GenerationsLast, One
  <2>5. FutureIsEmpty' /\ Move!OneInFlight' /\ OnlyStreams'
    BY <1>0, <2>1, <2>2 DEF StreamInv, StreamTyped, FutureIsEmpty, Move!OneInFlight, OnlyStreams, Move!Generations
  <2> QED BY <2>3, <2>4, <2>5 DEF StreamInv
<1>4. CASE Move!Tick
  <2>1. /\ moveSending = FALSE /\ moveSending' = TRUE /\ streaming = TRUE
        /\ pending' = [pending EXCEPT ![gen] = @ + 1]
        /\ UNCHANGED <<moveDelivery, ttl, connected, streaming, expiry, gen, shots, moveClosed, inputs, moveDeploys>>
    BY <1>4 DEF Move!Tick, Move!Issues, Move!IssueIf, StreamInv, StreamTyped
  <2> QED BY <1>0, <2>1 DEF StreamInv, StreamTyped, GenerationsLast, FutureIsEmpty, Move!OneInFlight, OnlyStreams, One, Move!Generations
<1>5. CASE Move!Expire
  <2>1. gen + 1 <= inputs' + moveDeploys' + One(moveClosed')
    BY <1>5, <1>a DEF Move!Expire, StreamInv, StreamTyped, GenerationsLast
  <2> QED BY <1>5, <2>1, StopKeeps DEF Move!Expire, StreamInv, StreamTyped
<1>6. ASSUME NEW g \in Move!Generations, NEW ok \in BOOLEAN, Move!StreamSendSettles(g, ok)
      PROVE  StreamInv'
  <2>1. /\ pending[g] > 0 /\ pending' = [pending EXCEPT ![g] = @ - 1]
        /\ moveSending' = IF g = gen THEN FALSE ELSE moveSending
        /\ UNCHANGED <<moveDelivery, ttl, connected, streaming, expiry, gen, shots, moveClosed, inputs, moveDeploys>>
    BY <1>6 DEF Move!StreamSendSettles, Move!Owns
  <2>2. pending' \in [Move!Generations -> Nat] /\ (g # gen => pending'[gen] = pending[gen])
    BY <1>0, <2>1 DEF StreamInv, StreamTyped
  <2>3. StreamTyped' /\ GenerationsLast' /\ OnlyStreams'
    BY <2>1, <2>2 DEF StreamInv, StreamTyped, GenerationsLast, OnlyStreams, One
  <2>4. FutureIsEmpty'
    BY <2>1 DEF StreamInv, StreamTyped, FutureIsEmpty, Move!Generations
  <2>5. Move!OneInFlight'
    BY <1>0, <2>1, <2>2 DEF StreamInv, StreamTyped, Move!OneInFlight
  <2> QED BY <2>3, <2>4, <2>5 DEF StreamInv
<1>7. ASSUME NEW ok \in BOOLEAN, Move!ShotSettles(ok)
      PROVE  StreamInv'
  BY <1>7 DEF Move!ShotSettles, Move!streamVars, StreamInv, StreamTyped, GenerationsLast, FutureIsEmpty, Move!OneInFlight, OnlyStreams, One
<1>8. ASSUME NEW conn \in BOOLEAN, Move!DepsChanged(conn)
      PROVE  StreamInv'
  <2>1. /\ moveDeploys' = moveDeploys + 1 /\ moveDeploys' \in 0..MoveDeploys /\ moveClosed' = moveClosed /\ inputs' = inputs
    BY <1>8, NodesAssumption DEF Move!DepsChanged, StreamInv, StreamTyped
  <2>2. gen + 1 <= inputs' + moveDeploys' + One(moveClosed')
    BY <1>a, <2>1 DEF StreamInv, StreamTyped, GenerationsLast
  <2> QED BY <1>8, <2>1, <2>2, StopKeeps DEF Move!DepsChanged, StreamInv, StreamTyped
<1>9. CASE Move!Close
  <2>1. gen + 1 <= inputs' + moveDeploys' + One(moveClosed')
    <3>1. One(moveClosed') = 1 /\ One(moveClosed) = 0 /\ inputs' = inputs /\ moveDeploys' = moveDeploys
      BY <1>9, Zenon DEF Move!Close, One
    <3> QED BY <3>1, <1>a DEF StreamInv, StreamTyped, GenerationsLast
  <2> QED BY <1>9, <2>1, StopKeeps DEF Move!Close, StreamInv, StreamTyped
<1>10. CASE UNCHANGED Move!vars
  BY <1>10 DEF Move!vars, Move!streamVars, StreamInv, StreamTyped, GenerationsLast, FutureIsEmpty, Move!OneInFlight, OnlyStreams, One
<1> QED BY <1>1, <1>2, <1>3, <1>4, <1>5, <1>6, <1>7, <1>8, <1>9, <1>10 DEF Move!Next, Move!Settlements

\* The generations tell the sends apart: the stream that runs has one unsettled
\* send at most, and exactly while _streamSending says so.
THEOREM StreamsOneAtATime == Move!Spec => [](StreamInv /\ Move!OneInFlight)
<1>1. StreamInv /\ [Move!Next]_(Move!vars) => StreamInv'
  BY StreamNext
<1>2. StreamInv => Move!OneInFlight
  BY DEF StreamInv
<1> QED BY StreamInit, <1>1, <1>2, PTL DEF Move!Spec

-----------------------------------------------------------------------------
\* No send of the current generation is under way without a stream.
LEMMA NothingToReport == ASSUME StreamInv, ~streaming PROVE pending[gen] = 0 /\ ~expiry
  BY DEF StreamInv, StreamTyped, Move!OneInFlight, OnlyStreams

\* A stopped stream is silent until the next input, though its sends settle.
THEOREM StoppedStreamIsSilent == Move!Spec => Move!StoppedIsSilent
<1>1. ASSUME StreamInv, [Move!Next]_(Move!vars), moveDelivery = "stream", ~streaming, inputs' = inputs, ~UNCHANGED Move!vars
      PROVE  emitted' = "nothing" /\ \A g \in Move!Generations : pending'[g] <= pending[g]
  <2>1. pending[gen] = 0 /\ ~expiry /\ shots = 0 /\ pending \in [Move!Generations -> Nat] /\ inputs \in Nat
    BY <1>1, NothingToReport DEF StreamInv, StreamTyped, OnlyStreams
  <2>2. ~Move!InputStops /\ ~Move!InputRejected /\ ~Move!InputStreams /\ ~Move!InputSends /\ ~Move!InputBuilds
    BY <1>1, <2>1 DEF Move!InputStops, Move!InputRejected, Move!InputStreams, Move!InputSends, Move!InputBuilds, Move!Accepts
  <2>3. ~Move!Tick /\ ~Move!Expire
    BY <1>1, <2>1 DEF Move!Tick, Move!Expire
  <2>4. ASSUME NEW g \in Move!Generations, NEW ok \in BOOLEAN, Move!StreamSendSettles(g, ok)
        PROVE  emitted' = "nothing" /\ \A h \in Move!Generations : pending'[h] <= pending[h]
    BY <2>1, <2>4 DEF Move!StreamSendSettles, Move!Reports
  <2>5. \A ok \in BOOLEAN : ~Move!ShotSettles(ok)
    BY <2>1 DEF Move!ShotSettles
  <2>6. ASSUME Move!Close \/ \E conn \in BOOLEAN : Move!DepsChanged(conn)
        PROVE  emitted' = "nothing" /\ \A h \in Move!Generations : pending'[h] <= pending[h]
    BY <2>1, <2>6 DEF Move!Close, Move!DepsChanged
  <2> QED BY <1>1, <2>2, <2>3, <2>4, <2>5, <2>6 DEF Move!Next, Move!Settlements
<1> QED BY <1>1, StreamsOneAtATime, PTL DEF Move!StoppedIsSilent, Move!Spec

\* A closed node says nothing more, in any delivery mode.
THEOREM ClosedNodeIsSilent == Move!Spec => Move!ClosedIsSilent
<1>1. ASSUME StreamInv, [Move!Next]_(Move!vars), moveClosed, ~UNCHANGED Move!vars
      PROVE  emitted' = "nothing"
  <2>1. pending[gen] = 0 /\ ~expiry /\ ~streaming
    BY <1>1, NothingToReport DEF StreamInv, OnlyStreams
  <2>2. ~Move!InputStops /\ ~Move!InputRejected /\ ~Move!InputStreams /\ ~Move!InputSends /\ ~Move!InputBuilds
    BY <1>1 DEF Move!InputStops, Move!InputRejected, Move!InputStreams, Move!InputSends, Move!InputBuilds, Move!Accepts
  <2>3. ~Move!Tick /\ ~Move!Expire /\ ~Move!Close /\ \A conn \in BOOLEAN : ~Move!DepsChanged(conn)
    BY <1>1, <2>1 DEF Move!Tick, Move!Expire, Move!Close, Move!DepsChanged
  <2>4. ASSUME NEW g \in Move!Generations, NEW ok \in BOOLEAN, Move!StreamSendSettles(g, ok)
        PROVE  emitted' = "nothing"
    BY <2>1, <2>4 DEF Move!StreamSendSettles, Move!Reports
  <2>5. ASSUME NEW ok \in BOOLEAN, Move!ShotSettles(ok)
        PROVE  emitted' = "nothing"
    BY <1>1, <2>5 DEF Move!ShotSettles
  <2> QED BY <1>1, <2>2, <2>3, <2>4, <2>5 DEF Move!Next, Move!Settlements
<1> QED BY <1>1, StreamsOneAtATime, PTL DEF Move!ClosedIsSilent, Move!Spec

\* A stream with a time to live has its deadline armed, through refreshes, stops
\* and deploys, and the deadline of a stream that has ended is gone with it.
THEOREM DeadlineArmed == Move!Spec => []Move!DeadlineStands
<1>1. Move!Init => Move!DeadlineStands
  BY DEF Move!Init, Move!Start, Move!DeadlineStands
<1>2. ASSUME Move!DeadlineStands, [Move!Next]_(Move!vars) PROVE Move!DeadlineStands'
  <2> USE DEF Move!DeadlineStands
  <2>1. CASE UNCHANGED <<streaming, expiry, ttl>>
    BY <1>2, <2>1
  <2>2. CASE Move!StopStream
    BY <2>2 DEF Move!StopStream
  <2>3. CASE Move!InputStreams
    BY <2>3 DEF Move!InputStreams, Move!Accepts, Move!Arms
  <2> QED BY <1>2, <2>1, <2>2, <2>3 DEF Move!Next, Move!InputStops, Move!InputRejected, Move!InputSends,
     Move!InputBuilds, Move!Accepts, Move!Tick, Move!Expire, Move!Settlements, Move!StreamSendSettles,
     Move!ShotSettles, Move!DepsChanged, Move!Close, Move!streamVars, Move!vars
<1> QED BY <1>1, <1>2, PTL DEF Move!Spec

-----------------------------------------------------------------------------
(* The nodes that act on a vehicle *)

\* An input that has not begun has no connection, one that has an error is done;
\* and the error of a command or payload node names what the input was sent on.
ActionInv ==
  /\ inputPhase \in [Inputs -> {"new", "pending", "done"}]
  /\ sentOn \in [Inputs -> 0..MaxConnections] /\ named \in [Inputs -> 0..MaxConnections]
  /\ output \in [Inputs -> {"none", "error", "built", "result"}]
  /\ connection \in 0..deployed /\ deployed \in 1..MaxConnections
  /\ \A i \in Inputs : /\ inputPhase[i] = "new" => sentOn[i] = 0
                       /\ output[i] = "error" => inputPhase[i] = "done"
  /\ Action!NamesItsConnection

LEMMA ActionStart ==
  ASSUME NEW k, NEW d, Action!Start(k, d) PROVE ActionInv
BY NodesAssumption DEF Action!Start, ActionInv, Action!Nobody, Action!NamesItsConnection

LEMMA FailKeeps ==
  ASSUME ActionInv, NEW i \in Inputs, Action!Fail(i),
         UNCHANGED <<nodeKind, connection, deployed, sentOn>>
  PROVE  ActionInv'
<1>1. Action!Named(i) \in 0..MaxConnections
  BY NodesAssumption DEF ActionInv, Action!Named
<1>2. nodeKind \in {"command", "payload"} /\ sentOn[i] # 0 => Action!Named(i) = sentOn[i]
  BY DEF Action!Named, Action!Nobody
<1> QED BY <1>1, <1>2 DEF ActionInv, Action!Fail, Action!Nobody, Action!NamesItsConnection

LEMMA ActionNext == ASSUME ActionInv, [Action!Next]_(Action!vars) PROVE ActionInv'
<1>1. ASSUME NEW i \in Inputs, Action!Refuse(i) \/ Action!RefuseBusy(i) PROVE ActionInv'
  BY <1>1, FailKeeps DEF Action!Refuse, Action!RefuseBusy, Action!config
<1>2. ASSUME NEW i \in Inputs, Action!Build(i) PROVE ActionInv'
  BY <1>2 DEF ActionInv, Action!Build, Action!config, Action!NamesItsConnection
<1>3. ASSUME NEW i \in Inputs, Action!BeginSend(i) \/ Action!BeginLocked(i) PROVE ActionInv'
  <2>1. inputPhase[i] = "new" /\ Action!Runs(i)
        /\ UNCHANGED <<nodeKind, connection, deployed, output, named>>
    BY <1>3 DEF Action!BeginSend, Action!BeginLocked, Action!config
  <2>2. output[i] # "error"
    BY <2>1 DEF ActionInv
  <2>3. connection \in 0..MaxConnections
    BY NodesAssumption DEF ActionInv
  <2>4. inputPhase' = [inputPhase EXCEPT ![i] = "pending"] /\ sentOn' = [sentOn EXCEPT ![i] = connection]
    BY <2>1 DEF Action!Runs
  <2>5. inputPhase' \in [Inputs -> {"new", "pending", "done"}] /\ sentOn' \in [Inputs -> 0..MaxConnections]
    BY <2>3, <2>4 DEF ActionInv
  <2>6. \A j \in Inputs : j # i => inputPhase'[j] = inputPhase[j] /\ sentOn'[j] = sentOn[j]
    BY <2>4 DEF ActionInv
  <2>7. inputPhase'[i] = "pending"
    BY <2>4 DEF ActionInv
  <2> QED BY <2>1, <2>2, <2>5, <2>6, <2>7 DEF ActionInv, Action!NamesItsConnection, Action!Nobody
<1>4. ASSUME NEW i \in Inputs, Action!Settle(i) PROVE ActionInv'
  <2>1. inputPhase[i] = "pending" /\ UNCHANGED <<nodeKind, connection, deployed, sentOn>>
        /\ (Action!EndsSilently(i) \/ Action!Answers(i) \/ Action!Fail(i))
    BY <1>4 DEF Action!Settle, Action!config
  <2>2. CASE Action!Fail(i)
    BY <2>1, <2>2, FailKeeps
  <2>3. CASE Action!EndsSilently(i)
    BY <2>1, <2>3 DEF ActionInv, Action!EndsSilently, Action!NamesItsConnection
  <2>4. CASE Action!Answers(i)
    BY <2>1, <2>4 DEF ActionInv, Action!Answers, Action!NamesItsConnection
  <2> QED BY <2>1, <2>2, <2>3, <2>4
<1>5. CASE Action!Refresh
  <2>1. UNCHANGED <<nodeKind, inputPhase, sentOn, output, named>>
        /\ connection' \in 0..deployed' /\ deployed' \in 1..MaxConnections
    BY <1>5, NodesAssumption DEF ActionInv, Action!Refresh, Action!Nobody, Action!config
  <2> QED BY <2>1 DEF ActionInv, Action!NamesItsConnection
<1>6. CASE Action!Close
  BY <1>6 DEF ActionInv, Action!Close, Action!config, Action!NamesItsConnection
<1>7. CASE UNCHANGED Action!vars
  BY <1>7 DEF ActionInv, Action!vars, Action!config, Action!NamesItsConnection
<1> QED BY <1>1, <1>2, <1>3, <1>4, <1>5, <1>6, <1>7 DEF Action!Next

\* A node that is closed when a step is taken sends nothing in it.
LEMMA ClosedActionSilent ==
  ASSUME [Action!Next]_(Action!vars), actionClosed PROVE UNCHANGED output
<1>1. ASSUME NEW i \in Inputs, Action!Settle(i) PROVE UNCHANGED output
  BY <1>1 DEF Action!Settle, Action!EndsSilently, Action!Answers, Action!Obsolete
<1> QED BY <1>1 DEF Action!Next, Action!vars, Action!Refuse, Action!RefuseBusy, Action!Build, Action!BeginSend,
                    Action!BeginLocked, Action!Refresh, Action!Close

\* For any number of inputs in flight at once, through deploys that replace or
\* remove the connection under them: a failed send names the connection it
\* used, and a node that is closed says nothing more.
THEOREM ActionsAnswerTruly ==
  Action!Spec => []Action!NamesItsConnection /\ Action!ObsoleteIsSilent
<1>1. Action!Init => ActionInv
  BY ActionStart DEF Action!Init
<1>2. ActionInv /\ [Action!Next]_(Action!vars) => ActionInv'
  BY ActionNext
<1>3. ActionInv => Action!NamesItsConnection
  BY DEF ActionInv
<1>4. [Action!Next]_(Action!vars) => [actionClosed => UNCHANGED output]_(Action!vars)
  BY ClosedActionSilent
<1> QED BY <1>1, <1>2, <1>3, <1>4, PTL DEF Action!Spec, Action!ObsoleteIsSilent

\* The locks of the mission and parameter nodes.
LocksInv ==
  /\ inputPhase \in [Inputs -> {"new", "pending", "done"}]
  /\ sentOn \in [Inputs -> 0..MaxConnections]
  /\ holder \in [Action!Connections -> Inputs \cup {0}]
  /\ connection \in 0..MaxConnections
  /\ Action!LocksAreOwned

\* An input is no name for nobody.
LEMMA SomebodyIsNotNobody == 0 \notin Inputs /\ Action!Nobody = 0 /\ Action!Connections = 1..MaxConnections
  BY NodesAssumption DEF Action!Nobody, Action!Connections

LEMMA LocksStart == ASSUME NEW k, NEW d, Action!Start(k, d) PROVE LocksInv
<1>1. 0 \in 0..MaxConnections /\ 1 \in 0..MaxConnections
  BY NodesAssumption
<1> QED BY <1>1, SomebodyIsNotNobody DEF Action!Start, LocksInv, Action!LocksAreOwned

\* An input that has not begun, or that runs without a lock, changes no lock.
LEMMA LockStays ==
  ASSUME LocksInv, NEW i \in Inputs, NEW p \in {"new", "pending", "done"},
         inputPhase[i] = "new", inputPhase' = [inputPhase EXCEPT ![i] = p],
         p = "pending" => ~Action!Locks(nodeKind),
         sentOn' \in [Inputs -> 0..MaxConnections], \A j \in Inputs \ {i} : sentOn'[j] = sentOn[j],
         UNCHANGED <<nodeKind, connection, holder>>
  PROVE  LocksInv'
<1>1. inputPhase' \in [Inputs -> {"new", "pending", "done"}]
  BY DEF LocksInv
<1>2. \A j \in Inputs \ {i} : inputPhase'[j] = inputPhase[j] /\ sentOn'[j] = sentOn[j]
  BY DEF LocksInv
<1>3. \A c \in Action!Connections : holder[c] # i
  BY SomebodyIsNotNobody DEF LocksInv, Action!LocksAreOwned
<1>4. inputPhase'[i] = p
  BY DEF LocksInv
<1>5. (\A c \in Action!Connections : holder[c] # Action!Nobody =>
         holder[c] \in Inputs /\ inputPhase[holder[c]] = "pending" /\ sentOn[holder[c]] = c)'
  BY <1>2, <1>3 DEF LocksInv, Action!LocksAreOwned, Action!Nobody
<1>6. (Action!Locks(nodeKind) => \A j \in Inputs : inputPhase[j] = "pending" =>
         sentOn[j] \in Action!Connections /\ holder[sentOn[j]] = j)'
  BY <1>2, <1>4 DEF LocksInv, Action!LocksAreOwned, Action!Locks
<1> QED BY <1>1, <1>5, <1>6 DEF LocksInv, Action!LocksAreOwned, Action!Connections

LEMMA LocksNext == ASSUME LocksInv, ActionInv, [Action!Next]_(Action!vars) PROVE LocksInv'
<1> USE DEF Action!config
<1>0. connection \in 0..MaxConnections
  BY DEF LocksInv
<1>1. ASSUME NEW i \in Inputs, Action!Refuse(i) \/ Action!RefuseBusy(i) \/ Action!Build(i)
      PROVE  LocksInv'
  <2>1. /\ inputPhase[i] = "new" /\ inputPhase' = [inputPhase EXCEPT ![i] = "done"]
        /\ UNCHANGED <<nodeKind, connection, holder, sentOn>>
    BY <1>1 DEF Action!Refuse, Action!RefuseBusy, Action!Build, Action!Fail
  <2>2. sentOn' \in [Inputs -> 0..MaxConnections]
    BY <2>1 DEF LocksInv
  <2> QED BY <2>1, <2>2, LockStays
<1>2. ASSUME NEW i \in Inputs, Action!BeginSend(i) PROVE LocksInv'
  <2>1. /\ inputPhase[i] = "new" /\ inputPhase' = [inputPhase EXCEPT ![i] = "pending"]
        /\ sentOn' = [sentOn EXCEPT ![i] = connection] /\ ~Action!Locks(nodeKind)
        /\ UNCHANGED <<nodeKind, connection, holder>>
    BY <1>2 DEF Action!BeginSend, Action!Runs
  <2>2. sentOn' \in [Inputs -> 0..MaxConnections] /\ \A j \in Inputs \ {i} : sentOn'[j] = sentOn[j]
    BY <1>0, <2>1 DEF LocksInv
  <2> QED BY <2>1, <2>2, LockStays
<1>3. ASSUME NEW i \in Inputs, Action!BeginLocked(i) PROVE LocksInv'
  <2>1. /\ inputPhase[i] = "new" /\ inputPhase' = [inputPhase EXCEPT ![i] = "pending"]
        /\ sentOn' = [sentOn EXCEPT ![i] = connection] /\ holder' = [holder EXCEPT ![connection] = i]
        /\ connection # 0 /\ holder[connection] = 0 /\ Action!Locks(nodeKind)
        /\ UNCHANGED <<nodeKind, connection>>
    BY <1>3 DEF Action!BeginLocked, Action!Runs, Action!LockHeld, Action!Nobody
  <2>2. connection \in Action!Connections
    BY <1>0, <2>1, NodesAssumption DEF Action!Connections
  <2>3. /\ inputPhase' \in [Inputs -> {"new", "pending", "done"}] /\ inputPhase'[i] = "pending"
        /\ \A j \in Inputs \ {i} : inputPhase'[j] = inputPhase[j]
    BY <2>1 DEF LocksInv
  <2>4. /\ sentOn' \in [Inputs -> 0..MaxConnections] /\ sentOn'[i] = connection
        /\ \A j \in Inputs \ {i} : sentOn'[j] = sentOn[j]
    BY <1>0, <2>1 DEF LocksInv
  <2>5. /\ holder' \in [Action!Connections -> Inputs \cup {0}] /\ holder'[connection] = i
        /\ \A c \in Action!Connections \ {connection} : holder'[c] = holder[c]
    BY <2>1, <2>2 DEF LocksInv
  <2>6. \A c \in Action!Connections : holder[c] # i
    BY <2>1, SomebodyIsNotNobody DEF LocksInv, Action!LocksAreOwned
  <2>7. (\A c \in Action!Connections : holder[c] # Action!Nobody =>
           holder[c] \in Inputs /\ inputPhase[holder[c]] = "pending" /\ sentOn[holder[c]] = c)'
    BY <2>3, <2>4, <2>5, <2>6 DEF LocksInv, Action!LocksAreOwned, Action!Nobody, Action!Connections
  <2>8. ASSUME NEW j \in Inputs, inputPhase'[j] = "pending"
        PROVE  sentOn'[j] \in Action!Connections /\ holder'[sentOn'[j]] = j
    <3>1. CASE j = i
      BY <2>2, <2>4, <2>5, <3>1
    <3>2. CASE j # i
      <4>1. sentOn[j] \in Action!Connections /\ holder[sentOn[j]] = j
        BY <2>1, <2>3, <2>8, <3>2 DEF LocksInv, Action!LocksAreOwned
      <4>2. sentOn[j] # connection
        BY <2>1, <4>1, SomebodyIsNotNobody
      <4> QED BY <2>4, <2>5, <3>2, <4>1, <4>2
    <3> QED BY <3>1, <3>2
  <2>9. connection' \in 0..MaxConnections
    BY <1>0, <2>1
  <2> QED BY <2>3, <2>4, <2>5, <2>7, <2>8, <2>9 DEF LocksInv, Action!LocksAreOwned, Action!Connections
<1>4. ASSUME NEW i \in Inputs, Action!Settle(i) PROVE LocksInv'
  <2>1. /\ inputPhase[i] = "pending" /\ inputPhase' = [inputPhase EXCEPT ![i] = "done"]
        /\ holder' = [c \in Action!Connections |-> IF holder[c] = i THEN 0 ELSE holder[c]]
        /\ UNCHANGED <<nodeKind, connection, sentOn>>
    BY <1>4 DEF Action!Settle, Action!EndsSilently, Action!Answers, Action!Fail, Action!Release, Action!Nobody
  <2>2. /\ inputPhase' \in [Inputs -> {"new", "pending", "done"}] /\ inputPhase'[i] = "done"
        /\ \A j \in Inputs \ {i} : inputPhase'[j] = inputPhase[j]
    BY <2>1 DEF LocksInv
  <2>3. holder' \in [Action!Connections -> Inputs \cup {0}]
    BY <2>1 DEF LocksInv
  <2>4. (\A c \in Action!Connections : holder[c] # Action!Nobody =>
           holder[c] \in Inputs /\ inputPhase[holder[c]] = "pending" /\ sentOn[holder[c]] = c)'
    BY <2>1, <2>2 DEF LocksInv, Action!LocksAreOwned, Action!Nobody, Action!Connections
  <2>5. (Action!Locks(nodeKind) => \A j \in Inputs : inputPhase[j] = "pending" =>
           sentOn[j] \in Action!Connections /\ holder[sentOn[j]] = j)'
    BY <2>1, <2>2 DEF LocksInv, Action!LocksAreOwned, Action!Locks, Action!Connections
  <2> QED BY <2>1, <2>2, <2>3, <2>4, <2>5 DEF LocksInv, Action!LocksAreOwned, Action!Connections
<1>5. CASE Action!Refresh \/ Action!Close \/ UNCHANGED Action!vars
  <2>1. UNCHANGED <<nodeKind, inputPhase, sentOn, holder>>
    BY <1>5 DEF Action!Refresh, Action!Close, Action!vars
  <2>2. connection' \in 0..MaxConnections
    <3>1. connection' \in 0..deployed' /\ deployed' \in 1..MaxConnections
      BY ActionNext DEF ActionInv
    <3> QED BY <3>1, NodesAssumption
  <2> QED BY <2>1, <2>2 DEF LocksInv, Action!LocksAreOwned, Action!Locks, Action!Connections
<1> QED BY <1>1, <1>2, <1>3, <1>4, <1>5 DEF Action!Next

\* For any number of inputs and deploys: a workflow holds the lock of the
\* connection it began on and no other, nobody else holds one, and once nothing
\* runs nothing is locked.
THEOREM LocksFollowWorkflows == Action!Spec => []Action!LocksAreOwned /\ Action!ReleasedWhenIdle
<1>1. Action!Init => ActionInv /\ LocksInv
  BY ActionStart, LocksStart DEF Action!Init
<1>2. ActionInv /\ LocksInv /\ [Action!Next]_(Action!vars) => ActionInv' /\ LocksInv'
  BY ActionNext, LocksNext
<1>3. LocksInv => Action!LocksAreOwned
  BY DEF LocksInv
<1>4. LocksInv' => ((\A i \in Inputs : inputPhase'[i] # "pending")
                    => \A c \in Action!Connections : holder'[c] = Action!Nobody)
  BY DEF LocksInv, Action!LocksAreOwned, Action!Connections, Action!Nobody
<1>5. LocksInv' => [(\A i \in Inputs : inputPhase'[i] # "pending")
                    => \A c \in Action!Connections : holder'[c] = Action!Nobody]_(Action!vars)
  BY <1>4
<1> QED BY <1>1, <1>2, <1>3, <1>5, PTL DEF Action!Spec, Action!ReleasedWhenIdle

-----------------------------------------------------------------------------
(* The formation node *)

\* Those who followed at the last emission still have their places, unless the
\* leader was alone since: only then may an evaluation that sees the same
\* followers and a leader that hardly moved send nothing.
FollowersPlaced == lastPlace = 0 \/ alone \/ lastFollowers \subseteq placed

FormationInv == FollowersPlaced /\ Form!NewcomersPlaced

\* Expiry is done when it has been done: the followers are those of the table
\* before it.
LEMMA SameFollowers == ASSUME NEW table PROVE Form!FollowerSysids(Form!Expired(table)) = Form!FollowerSysids(table)
<1>1. Form!Expired(Form!Expired(table)) = Form!Expired(table)
  BY DEF Form!Expired, Form!Unknown
<1>2. Form!Listed(Form!Expired(table)) = Form!Listed(table)
  BY <1>1 DEF Form!Listed
<1>3. \A e \in Form!Listed(table) : Form!Stale(Form!Expired(table), e) <=> Form!Stale(table, e)
  BY DEF Form!Listed, Form!Expired, Form!Stale, Form!Unknown
<1> QED BY <1>2, <1>3 DEF Form!FollowerSysids, Form!ListedSysids

\* An evaluation of the table places the followers, finds none, or finds those
\* of the last emission.
LEMMA MaybeEmitKeeps ==
  ASSUME FormationInv, NEW table, NEW force, Form!MaybeEmit(table, force) PROVE FormationInv'
<1> DEFINE F == Form!FollowerSysids(table)
<1>1. fleet' = Form!Expired(table)
  BY DEF Form!MaybeEmit
<1>2. ASSUME Form!HandleStale(table), judged' = FALSE, UNCHANGED <<placed, alone>> PROVE FormationInv'
  <2>1. lastPlace' = 0 \/ UNCHANGED <<lastPlace, lastFollowers>>
    BY <1>2 DEF Form!HandleStale, Form!formation
  <2> QED BY <1>2, <2>1 DEF FormationInv, FollowersPlaced, Form!NewcomersPlaced
<1>3. ASSUME judged' = FALSE, UNCHANGED <<Form!formation, placed, alone>> PROVE FormationInv'
  BY <1>3 DEF FormationInv, FollowersPlaced, Form!NewcomersPlaced, Form!formation
<1>4. ASSUME UNCHANGED leader PROVE Form!FollowerSysids(fleet)' = F
  <2>1. Form!FollowerSysids(fleet)' = Form!FollowerSysids(fleet')
    BY <1>4 DEF Form!FollowerSysids
  <2> QED BY <1>1, <2>1, SameFollowers
<1>5. ASSUME Form!EmitFollowers(table) PROVE FormationInv'
  <2>1. UNCHANGED leader
    BY <1>5 DEF Form!EmitFollowers, Form!formation
  <2>2. CASE F = {}
    <3>1. alone' = TRUE
      BY <1>5, <2>2 DEF Form!EmitFollowers
    <3> QED BY <3>1 DEF FormationInv, FollowersPlaced, Form!NewcomersPlaced
  <2>3. CASE F # {}
    <3>1. lastFollowers' = F /\ placed' = F
      BY <1>5, <2>3 DEF Form!EmitFollowers
    <3> QED BY <1>4, <2>1, <3>1 DEF FormationInv, FollowersPlaced, Form!NewcomersPlaced
  <2> QED BY <2>2, <2>3
<1>6. ASSUME ~Form!Moved(table), placed' = placed \cap F, UNCHANGED <<Form!formation, alone>> PROVE FormationInv'
  <2>1. F = lastFollowers /\ lastPlace # 0 /\ UNCHANGED <<leader, lastPlace, lastFollowers>>
    BY <1>6 DEF Form!Moved, Form!formation
  <2>2. alone \/ F \subseteq placed'
    BY <1>6, <2>1 DEF FormationInv, FollowersPlaced
  <2> QED BY <1>4, <1>6, <2>1, <2>2 DEF FormationInv, FollowersPlaced, Form!NewcomersPlaced
<1> QED BY <1>2, <1>3, <1>5, <1>6 DEF Form!MaybeEmit

LEMMA FormationNext == ASSUME FormationInv, [Form!Next]_(Form!vars) PROVE FormationInv'
<1>1. ASSUME UNCHANGED <<fleet, leader, lastPlace, lastFollowers, placed, alone, judged>> PROVE FormationInv'
  BY <1>1 DEF FormationInv, FollowersPlaced, Form!NewcomersPlaced, Form!FollowerSysids
<1>2. ASSUME judged' = FALSE, UNCHANGED <<lastPlace, lastFollowers, placed, alone>> PROVE FormationInv'
  BY <1>2 DEF FormationInv, FollowersPlaced, Form!NewcomersPlaced
<1>3. Form!TimePasses \/ Form!IntervalPasses => FormationInv'
  BY <1>2 DEF Form!TimePasses, Form!IntervalPasses, Form!formation
<1>4. Form!Close \/ (\E present \in BOOLEAN : Form!Attach(present)) \/ UNCHANGED Form!vars => FormationInv'
  BY <1>1 DEF Form!Close, Form!Attach, Form!vars, Form!formation, Form!history
<1>5. ASSUME NEW e, NEW text, NEW place, Form!Receive(e, text, place) PROVE FormationInv'
  BY <1>5, MaybeEmitKeeps DEF Form!Receive
<1>6. Form!Tick \/ Form!Poke => FormationInv'
  BY MaybeEmitKeeps DEF Form!Tick, Form!Poke
<1> QED BY <1>3, <1>4, <1>5, <1>6 DEF Form!Next

LEMMA FormationStart ==
  ASSUME NEW action, NEW sysid, Form!Start(action, sysid) PROVE FormationInv
BY DEF Form!Start, FormationInv, FollowersPlaced, Form!NewcomersPlaced

\* For any components, positions and messages, a leader that is lost and
\* succeeded, and followers that come, go stale and come back: an evaluation
\* past the rate limit leaves no fresh follower without a place, unless the
\* leader was without any follower since the last emission.
THEOREM FollowersReplaced == Form!Spec => []Form!NewcomersPlaced
<1>1. Form!Init => FormationInv
  BY FormationStart DEF Form!Init
<1>2. FormationInv /\ [Form!Next]_(Form!vars) => FormationInv'
  BY FormationNext
<1>3. FormationInv => Form!NewcomersPlaced
  BY DEF FormationInv
<1> QED BY <1>1, <1>2, <1>3, PTL DEF Form!Spec

-----------------------------------------------------------------------------
(* The two forms of a fan-out command *)

Coordinates == {"none", "rejected", "raw", "position", "params", "zero", "current"}

\* What is built of a form is the message of the target as it is.
FormsBuilt ==
  /\ spec \in FanMessage!Specs
  /\ built \in [FanMessage!Forms -> [place : Coordinates, alt : Coordinates]]
  /\ \A form \in FanMessage!Forms :
       built[form] \in {FanMessage!NotBuilt, IF FanMessage!Unresolvable(spec) THEN FanMessage!Rejected
                                             ELSE FanMessage!Message(form, spec)}

\* The place and the altitude of each form; COMMAND_LONG has no raw ones.
LEMMA LongForm ==
  ASSUME NEW s \in FanMessage!Specs, ~FanMessage!Unresolvable(s)
  PROVE  FanMessage!LongPlace(s) =
           IF FanMessage!HasPlace(s) THEN "position" ELSE FanMessage!ParamPlace(s)
<1>1. s.position \in {"none", "latlon", "offset", "alt"}
  BY DEF FanMessage!Specs, FanMessage!Positions, FanMessage!Unresolvable
<1>2. CASE FanMessage!HasPlace(s)
  BY <1>2, Zenon DEF FanMessage!LongPlace, FanMessage!HasPlace
<1>3. CASE ~FanMessage!HasPlace(s) /\ s.params
  <2>1. FanMessage!LongPlace(s) = "params"
    BY <1>3, Zenon DEF FanMessage!LongPlace
  <2> QED BY <1>3, <2>1 DEF FanMessage!ParamPlace
<1>4. CASE s.position = "alt" /\ ~s.params
  <2>1. ~FanMessage!HasPlace(s) /\ s.position # "none"
    BY <1>4 DEF FanMessage!HasPlace
  <2>2. FanMessage!LongPlace(s) = "current"
    BY <1>4, <2>1, Zenon DEF FanMessage!LongPlace
  <2> QED BY <1>4, <2>1, <2>2 DEF FanMessage!ParamPlace
<1>5. CASE s.position = "none" /\ ~s.params
  <2>1. ~FanMessage!HasPlace(s) /\ s.position # "alt"
    BY <1>5 DEF FanMessage!HasPlace
  <2>2. FanMessage!LongPlace(s) = "zero"
    BY <1>5, <2>1, Zenon DEF FanMessage!LongPlace
  <2> QED BY <1>5, <2>1, <2>2 DEF FanMessage!ParamPlace
<1> QED BY <1>1, <1>2, <1>3, <1>4, <1>5 DEF FanMessage!HasPlace

LEMMA FormsAgree ==
  ASSUME FormsBuilt PROVE FanMessage!SamePlace
<1>1. CASE FanMessage!Unresolvable(spec)
  <2>1. spec.position # "alt"
    BY <1>1 DEF FanMessage!Unresolvable
  <2>2. \A form \in FanMessage!Forms : built[form] \in {FanMessage!NotBuilt, FanMessage!Rejected}
    BY <1>1 DEF FormsBuilt
  <2> QED BY <2>1, <2>2 DEF FanMessage!SamePlace, FanMessage!Forms
<1>2. CASE ~FanMessage!Unresolvable(spec)
  <2>1. built["int"] \in {FanMessage!NotBuilt, [place |-> FanMessage!IntPlace(spec), alt |-> FanMessage!IntAlt(spec)]}
        /\ built["long"] \in {FanMessage!NotBuilt, [place |-> FanMessage!LongPlace(spec), alt |-> FanMessage!LongAlt(spec)]}
    BY <1>2 DEF FormsBuilt, FanMessage!Message, FanMessage!Forms
  <2>2. FanMessage!LongPlace(spec) =
          IF FanMessage!HasPlace(spec) THEN "position" ELSE FanMessage!ParamPlace(spec)
    BY <1>2, LongForm DEF FormsBuilt
  <2>3. ~spec.raw /\ ~spec.z =>
          FanMessage!IntPlace(spec) = FanMessage!LongPlace(spec) /\ FanMessage!IntAlt(spec) = FanMessage!LongAlt(spec)
    BY <2>2 DEF FanMessage!IntPlace, FanMessage!IntAlt, FanMessage!LongAlt
  <2>4. spec.position = "alt" /\ ~spec.params /\ ~spec.raw =>
          FanMessage!IntPlace(spec) = "current" /\ FanMessage!LongPlace(spec) = "current"
    BY <2>2 DEF FanMessage!IntPlace, FanMessage!HasPlace, FanMessage!ParamPlace
  <2>5. FanMessage!NotBuilt.place = "none"
    BY DEF FanMessage!NotBuilt
  <2> QED BY <2>1, <2>3, <2>4, <2>5 DEF FanMessage!SamePlace, FanMessage!Forms
<1> QED BY <1>1, <1>2

LEMMA FormsStart ==
  ASSUME NEW s \in FanMessage!Specs, FanMessage!Start(s) PROVE FormsBuilt
<1>1. spec = s /\ built = [form \in FanMessage!Forms |-> FanMessage!NotBuilt]
  BY DEF FanMessage!Start
<1>2. FanMessage!NotBuilt \in [place : Coordinates, alt : Coordinates]
  BY DEF FanMessage!NotBuilt, Coordinates
<1> QED BY <1>1, <1>2 DEF FormsBuilt

LEMMA MessageWords ==
  ASSUME NEW s \in FanMessage!Specs, ~FanMessage!Unresolvable(s), NEW form
  PROVE  FanMessage!Message(form, s) \in [place : Coordinates, alt : Coordinates]
<1>1. FanMessage!LongPlace(s) \in Coordinates
  BY LongForm DEF FanMessage!ParamPlace, Coordinates
<1>2. FanMessage!IntPlace(s) \in Coordinates
  BY DEF FanMessage!IntPlace, FanMessage!ParamPlace, Coordinates
<1>3. FanMessage!IntAlt(s) \in Coordinates /\ FanMessage!LongAlt(s) \in Coordinates
  BY DEF FanMessage!IntAlt, FanMessage!LongAlt, FanMessage!Param7, Coordinates
<1> QED BY <1>1, <1>2, <1>3 DEF FanMessage!Message

LEMMA FormsNext == ASSUME FormsBuilt, [FanMessage!Next]_(FanMessage!vars) PROVE FormsBuilt'
<1> DEFINE wanted(form) == IF FanMessage!Unresolvable(spec) THEN FanMessage!Rejected
                                                             ELSE FanMessage!Message(form, spec)
<1>1. \A form : wanted(form) \in [place : Coordinates, alt : Coordinates]
  <2>1. FanMessage!Rejected \in [place : Coordinates, alt : Coordinates]
    BY DEF FanMessage!Rejected, Coordinates
  <2> QED BY <2>1, MessageWords DEF FormsBuilt
<1>2. spec' = spec => \A form : wanted(form)' = wanted(form)
  OBVIOUS
<1>3. FormsBuilt <=> /\ spec \in FanMessage!Specs
                     /\ built \in [FanMessage!Forms -> [place : Coordinates, alt : Coordinates]]
                     /\ \A form \in FanMessage!Forms : built[form] \in {FanMessage!NotBuilt, wanted(form)}
  BY DEF FormsBuilt
<1>4. FormsBuilt' <=> /\ spec' \in FanMessage!Specs
                      /\ built' \in [FanMessage!Forms -> [place : Coordinates, alt : Coordinates]]
                      /\ \A form \in FanMessage!Forms : built'[form] \in {FanMessage!NotBuilt, wanted(form)'}
  BY DEF FormsBuilt
<1> HIDE DEF wanted
<1>5. ASSUME NEW form \in FanMessage!Forms, FanMessage!Build(form) PROVE FormsBuilt'
  <2>1. built' = [built EXCEPT ![form] = wanted(form)] /\ spec' = spec
    BY <1>5 DEF FanMessage!Build, wanted
  <2> QED BY <1>1, <1>2, <1>3, <1>4, <2>1
<1>6. CASE UNCHANGED FanMessage!vars
  <2>1. built' = built /\ spec' = spec
    BY <1>6 DEF FanMessage!vars
  <2> QED BY <1>2, <1>3, <1>4, <2>1
<1> QED BY <1>5, <1>6 DEF FanMessage!Next

-----------------------------------------------------------------------------
(* The setpoint of a move node *)

\* A message that was built is the one of the request, which was checked.
SetpointInv == message # Point!None => message = Point!Wire /\ ~Point!BadField /\ ~Point!BadPosition

Horizontal == {0, 1}

\* What an axis the vehicle follows is driven by was given.
LEMMA DrivenFieldGiven ==
  ASSUME ~Point!BadField, ~Point!BadPosition, NEW axis \in Point!Ignorable \ mask
  PROVE  Point!FieldOf(coordinate, axis) \in given
<1>1. CASE axis \in Point!Checked
  BY <1>1 DEF Point!BadField
<1>2. CASE axis \notin Point!Checked
  <2>1. coordinate = "global" /\ axis \in {0, 1}
    BY <1>2 DEF Point!Checked
  <2>2. {"lat", "lon"} \subseteq given
    BY <2>1 DEF Point!BadPosition
  <2> QED BY <2>1, <2>2 DEF Point!FieldOf
<1> QED BY <1>1, <1>2

\* The fields of the axes that are turned around, and of no others.
LEMMA FieldNames ==
  ASSUME NEW axis \in Point!Ignorable
  PROVE  /\ Point!FieldOf(coordinate, axis) \in {"climb", "accelUp"} <=> axis \in {5, 8}
         /\ Point!FieldOf(coordinate, axis) = "altitude" <=> axis = 2
<1>1. axis \in 0..8 \/ axis \in {10, 11}
  BY DEF Point!Ignorable, Point!Position, Point!Velocity, Point!Accel, Point!Yaw, Point!YawRate
<1>2. CASE axis \in 0..8
  BY <1>2 DEF Point!FieldOf, Point!AxisFields
<1>3. CASE axis \in {10, 11}
  BY <1>3 DEF Point!FieldOf, Point!AxisFields
<1> QED BY <1>1, <1>2, <1>3

LEMMA SetpointTrue == ASSUME SetpointInv PROVE Point!NothingInvented
<1> SUFFICES ASSUME message # Point!None, NEW axis \in Point!Ignorable \ mask
             PROVE  /\ message[axis].field \in given
                    /\ message[axis].sign = "negated" <=>
                         message[axis].field \in {"climb", "accelUp"}
                           \/ (message[axis].field = "altitude" /\ coordinate = "local")
  BY DEF Point!NothingInvented
<1> DEFINE field == Point!FieldOf(coordinate, axis)
<1>1. field \in given
  BY DrivenFieldGiven DEF SetpointInv
<1>2. message[axis].field = field /\ message[axis].sign = Point!Sign(axis)
  BY <1>1 DEF SetpointInv, Point!Wire, Point!Num
<1>3. (field \in {"climb", "accelUp"} <=> axis \in {5, 8}) /\ (field = "altitude" <=> axis = 2)
  BY FieldNames
<1> HIDE DEF field
<1>4. Point!Sign(axis) = "negated" <=> axis \in {5, 8} \/ (axis = 2 /\ coordinate = "local")
  BY DEF Point!Sign
<1> QED BY <1>1, <1>2, <1>3, <1>4

LEMMA SetpointNext == ASSUME SetpointInv, [Point!Next]_(Point!vars) PROVE SetpointInv'
<1>1. CASE UNCHANGED <<coordinate, mask, given, message>>
  BY <1>1 DEF SetpointInv, Point!Wire, Point!Sign, Point!Num, Point!FieldOf, Point!BadField, Point!BadPosition,
              Point!Checked
<1>2. CASE Point!Build
  <2>1. UNCHANGED <<coordinate, mask, given>> /\ message' = Point!Wire /\ ~Point!BadField /\ ~Point!BadPosition
    BY <1>2 DEF Point!Build
  <2>2. Point!Wire' = Point!Wire
    BY <2>1 DEF Point!Wire, Point!Sign, Point!Num, Point!FieldOf
  <2>3. ~Point!BadField' /\ ~Point!BadPosition'
    BY <2>1 DEF Point!BadField, Point!BadPosition, Point!Checked, Point!FieldOf
  <2> QED BY <2>1, <2>2, <2>3 DEF SetpointInv
<1> QED BY <1>1, <1>2 DEF Point!Next, Point!Refuse, Point!vars

-----------------------------------------------------------------------------
(* The places of a formation *)

LEMMA SizeOfSlots == \A S : Slots!Cardinality(S) = Cardinality(S)
BY DEF Slots!Cardinality, Cardinality

LEMMA LeastNatural ==
  ASSUME NEW T \in SUBSET Nat, T # {} PROVE \E n \in T : \A m \in T : n <= m
<1>1. PICK n \in T : \A m \in T : <<m, n>> \notin OpToRel(<, Nat)
  BY NatLessThanWellFounded, WFMin, Zenon
<1>2. \A m \in T : ~(m < n)
  BY <1>1, Zenon DEF OpToRel
<1> QED BY <1>2

LEMMA GreatestNatural ==
  ASSUME NEW T, T # {}, NEW n \in Nat, T \subseteq 0..n PROVE \E x \in T : \A y \in T : y <= x
<1> DEFINE U == {n - x : x \in T}
<1>1. U \in SUBSET Nat /\ U # {}
  <2>1. \A x \in T : n - x \in Nat
    OBVIOUS
  <2>2. PICK x \in T : TRUE
    OBVIOUS
  <2>3. n - x \in U
    OBVIOUS
  <2> QED BY <2>1, <2>3
<1> HIDE DEF U
<1>2. PICK u \in U : \A m \in U : u <= m
  BY <1>1, LeastNatural
<1>3. PICK x \in T : u = n - x
  BY DEF U
<1>4. ASSUME NEW y \in T PROVE y <= x
  <2>1. n - y \in U /\ x \in 0..n /\ y \in 0..n
    BY DEF U
  <2> QED BY <1>2, <1>3, <2>1
<1> QED BY <1>4

\* A list of vehicles, some pinned to slots; the followers of a leader, from
\* slot 1 on, are not pinned.
SlotsTyped ==
  /\ shape \in Slots!Shapes /\ ids \in SUBSET Vehicles
  /\ DOMAIN pins \subseteq Vehicles /\ \A v \in DOMAIN pins : pins[v] \in 0..MaxPin
  /\ startSlot \in {0, 1} /\ (startSlot = 1 => DOMAIN pins = {})

LastSlot == MaxPin + Cardinality(Vehicles) + 1
FreeBelow(n) == {j \in 0..(n - 1) : Slots!Free(j)}
Unpinned == ids \ DOMAIN pins
Before(v) == {x \in Unpinned : x < v}

LEMMA SlotBounds ==
  ASSUME SlotsTyped
  PROVE  /\ MaxPin \in Nat /\ Cardinality(Vehicles) \in Nat /\ LastSlot \in Nat
         /\ IsFiniteSet(Unpinned) /\ Cardinality(Unpinned) \in Nat /\ Cardinality(Unpinned) <= Cardinality(Vehicles)
         /\ Unpinned \subseteq Nat /\ Slots!Pinned \subseteq 0..MaxPin
<1>1. Unpinned \in SUBSET Vehicles
  BY DEF SlotsTyped, Unpinned
<1>2. IsFiniteSet(Unpinned) /\ Cardinality(Unpinned) <= Cardinality(Vehicles)
  BY <1>1, NodesAssumption, FS_Subset
<1>3. Cardinality(Unpinned) \in Nat /\ Cardinality(Vehicles) \in Nat
  BY <1>2, NodesAssumption, FS_CardinalityType
<1> QED BY <1>1, <1>2, <1>3, NodesAssumption DEF SlotsTyped, Slots!Pinned, LastSlot

LEMMA FreeBelowFinite ==
  ASSUME NEW n \in Nat
  PROVE  IsFiniteSet(FreeBelow(n)) /\ Cardinality(FreeBelow(n)) \in Nat
<1>1. IsFiniteSet(0..(n - 1))
  BY FS_Interval
<1>2. FreeBelow(n) \in SUBSET (0..(n - 1))
  BY DEF FreeBelow
<1> QED BY <1>1, <1>2, FS_Subset, FS_CardinalityType

\* There are more free slots than vehicles to be placed.
LEMMA EnoughSlots ==
  ASSUME SlotsTyped PROVE Cardinality(FreeBelow(LastSlot + 1)) > Cardinality(Vehicles)
<1> DEFINE all == 1..LastSlot
           taken == all \cap Slots!Pinned
<1>1. IsFiniteSet(all) /\ Cardinality(all) = LastSlot
  BY SlotBounds, FS_Interval
<1>2. taken \in SUBSET (1..MaxPin)
  BY SlotBounds
<1>3. IsFiniteSet(1..MaxPin) /\ Cardinality(1..MaxPin) = MaxPin
  BY SlotBounds, FS_Interval
<1>4. IsFiniteSet(taken) /\ Cardinality(taken) <= MaxPin
  BY <1>2, <1>3, FS_Subset
<1>5. Cardinality(all \ Slots!Pinned) = LastSlot - Cardinality(taken)
  BY <1>1, FS_Difference
<1>6. (all \ Slots!Pinned) \in SUBSET FreeBelow(LastSlot + 1)
  <2> SUFFICES ASSUME NEW j \in all \ Slots!Pinned PROVE j \in FreeBelow(LastSlot + 1)
    OBVIOUS
  <2>1. j >= startSlot
    BY SlotBounds DEF SlotsTyped
  <2> QED BY <2>1, SlotBounds DEF FreeBelow, Slots!Free
<1>7. IsFiniteSet(FreeBelow(LastSlot + 1)) /\ Cardinality(FreeBelow(LastSlot + 1)) \in Nat
  BY SlotBounds, FreeBelowFinite
<1>8. Cardinality(all \ Slots!Pinned) <= Cardinality(FreeBelow(LastSlot + 1))
  BY <1>6, <1>7, FS_Subset
<1>9. Cardinality(taken) \in Nat
  BY <1>4, FS_CardinalityType
<1> HIDE DEF all, taken
<1> QED BY <1>4, <1>5, <1>7, <1>8, <1>9, SlotBounds DEF LastSlot

\* The slot CHOOSE names is there: the first at which more slots are free than
\* vehicles come before.
LEMMA FreeSlotOfRank ==
  ASSUME SlotsTyped, NEW rank \in Nat, rank < Cardinality(Unpinned)
  PROVE  \E i \in 0..LastSlot : Slots!Free(i) /\ Cardinality(FreeBelow(i)) = rank
<1> DEFINE T == {n \in Nat : Cardinality(FreeBelow(n + 1)) > rank}
<1>1. LastSlot \in T
  <2>1. Cardinality(FreeBelow(LastSlot + 1)) \in Nat
    BY SlotBounds, FreeBelowFinite
  <2> QED BY <2>1, SlotBounds, EnoughSlots
<1> HIDE DEF T
<1>2. PICK n \in T : \A m \in T : n <= m
  <2>1. T \in SUBSET Nat /\ T # {}
    BY <1>1 DEF T
  <2> QED BY <2>1, LeastNatural
<1>3. n \in 0..LastSlot /\ n \in Nat /\ Cardinality(FreeBelow(n + 1)) > rank
  BY <1>1, <1>2, SlotBounds DEF T
<1>4. IsFiniteSet(FreeBelow(n)) /\ Cardinality(FreeBelow(n)) \in Nat /\ n \notin FreeBelow(n)
  BY <1>3, FreeBelowFinite DEF FreeBelow
<1>5. Cardinality(FreeBelow(n)) <= rank
  <2>1. CASE n = 0
    <3>1. FreeBelow(n) = {}
      BY <2>1 DEF FreeBelow
    <3> QED BY <3>1, FS_EmptySet
  <2>2. CASE n # 0
    <3>1. n - 1 \in Nat /\ n - 1 \notin T /\ (n - 1) + 1 = n
      BY <1>2, <1>3, <2>2
    <3>2. ~(Cardinality(FreeBelow(n)) > rank)
      BY <3>1 DEF T
    <3> QED BY <1>4, <3>2
  <2> QED BY <2>1, <2>2
<1>6. CASE ~Slots!Free(n)
  <2>1. FreeBelow(n + 1) = FreeBelow(n)
    BY <1>3, <1>6 DEF FreeBelow
  <2> QED BY <1>3, <1>4, <1>5, <2>1
<1>7. CASE Slots!Free(n)
  <2>1. FreeBelow(n + 1) = FreeBelow(n) \cup {n}
    BY <1>3, <1>7 DEF FreeBelow
  <2>2. Cardinality(FreeBelow(n + 1)) = Cardinality(FreeBelow(n)) + 1
    BY <1>4, <2>1, FS_AddElement
  <2> QED BY <1>3, <1>4, <1>5, <1>7, <2>2
<1> QED BY <1>6, <1>7

\* The vehicles before one that is not pinned are fewer than those not pinned.
LEMMA RankInRange ==
  ASSUME SlotsTyped, NEW v \in Unpinned
  PROVE  IsFiniteSet(Before(v)) /\ Cardinality(Before(v)) \in Nat /\ Cardinality(Before(v)) < Cardinality(Unpinned)
<1>1. Before(v) \in SUBSET (Unpinned \ {v})
  BY SlotBounds DEF Before
<1>2. IsFiniteSet(Unpinned \ {v}) /\ Cardinality(Unpinned \ {v}) = Cardinality(Unpinned) - 1
  BY SlotBounds, FS_RemoveElement
<1>3. IsFiniteSet(Before(v)) /\ Cardinality(Before(v)) <= Cardinality(Unpinned \ {v})
  BY <1>1, <1>2, FS_Subset
<1>4. Cardinality(Before(v)) \in Nat
  BY <1>3, FS_CardinalityType
<1> QED BY <1>2, <1>3, <1>4, SlotBounds

LEMMA UnpinnedSlot ==
  ASSUME SlotsTyped, NEW v \in Unpinned
  PROVE  /\ Slots!Slot(v) \in 0..LastSlot /\ Slots!Free(Slots!Slot(v))
         /\ Cardinality(FreeBelow(Slots!Slot(v))) = Cardinality(Before(v))
<1>1. Slots!Slot(v) = CHOOSE i \in 0..LastSlot : Slots!Free(i) /\ Cardinality(FreeBelow(i)) = Cardinality(Before(v))
  <2>1. v \notin DOMAIN pins
    BY DEF Unpinned
  <2> QED BY <2>1, SizeOfSlots DEF Slots!Slot, LastSlot, FreeBelow, Before, Unpinned
<1>2. \E i \in 0..LastSlot : Slots!Free(i) /\ Cardinality(FreeBelow(i)) = Cardinality(Before(v))
  BY RankInRange, FreeSlotOfRank
<1> QED BY <1>1, <1>2

\* No two vehicles of the list have one slot, and no follower that of the leader.
LEMMA SlotsApart ==
  ASSUME SlotsTyped, ~Slots!Collides, NEW v \in ids, NEW w \in ids, v # w
  PROVE  /\ Slots!Slot(v) \in 0..LastSlot
         /\ Slots!Slot(v) # Slots!Slot(w)
         /\ startSlot = 1 => Slots!Slot(v) # 0
<1> DEFINE D == ids \cap DOMAIN pins
<1>1. \A u \in D : Slots!Slot(u) = pins[u] /\ Slots!Slot(u) \in Slots!Pinned /\ Slots!Slot(u) \in 0..LastSlot
  BY SlotBounds DEF Slots!Slot, Slots!Pinned, LastSlot
<1>2. \A u \in ids : u \in D \/ u \in Unpinned
  BY DEF Unpinned
<1>3. v \in Unpinned => Slots!Slot(v) \in 0..LastSlot /\ Slots!Free(Slots!Slot(v))
  BY UnpinnedSlot
<1>4. w \in Unpinned => Slots!Slot(w) \in 0..LastSlot /\ Slots!Free(Slots!Slot(w))
  BY UnpinnedSlot
<1>5. ASSUME NEW x \in Unpinned, NEW y \in Unpinned, x < y PROVE Slots!Slot(x) # Slots!Slot(y)
  <2>1. x \in Nat /\ y \in Nat
    BY SlotBounds
  <2>2. Before(x) \cup {x} \in SUBSET Before(y) /\ x \notin Before(x)
    <3>1. \A z \in Unpinned : z \in Nat /\ (z < x => z < y)
      BY <1>5, <2>1, SlotBounds
    <3>2. ~(x < x) /\ x < y
      BY <1>5, <2>1
    <3> QED BY <3>1, <3>2 DEF Before
  <2>3. IsFiniteSet(Before(x)) /\ IsFiniteSet(Before(y))
        /\ Cardinality(Before(x)) \in Nat /\ Cardinality(Before(y)) \in Nat
    BY RankInRange
  <2>4. Cardinality(Before(x) \cup {x}) = Cardinality(Before(x)) + 1
    BY <2>2, <2>3, FS_AddElement
  <2>5. Cardinality(Before(x) \cup {x}) <= Cardinality(Before(y))
    BY <2>2, <2>3, FS_Subset
  <2>6. Cardinality(Before(x)) # Cardinality(Before(y))
    BY <2>3, <2>4, <2>5
  <2> QED BY <2>6, UnpinnedSlot
<1>6. ASSUME v \in Unpinned, w \in Unpinned PROVE Slots!Slot(v) # Slots!Slot(w)
  <2>1. v < w \/ w < v
    BY <1>6, SlotBounds
  <2> QED BY <1>5, <1>6, <2>1
<1>7. ASSUME v \in D, w \in D PROVE Slots!Slot(v) # Slots!Slot(w)
  <2> DEFINE f == [u \in D |-> pins[u]]
  <2>1. D \in SUBSET Vehicles
    BY DEF SlotsTyped
  <2>2. IsFiniteSet(D)
    BY <2>1, NodesAssumption, FS_Subset
  <2>3. Slots!Pinned = {pins[u] : u \in D}
    BY DEF Slots!Pinned
  <2>4. f \in [D -> Slots!Pinned] /\ \A t \in Slots!Pinned : \E u \in D : f[u] = t
    BY <2>3
  <2>5. f \in Surjection(D, Slots!Pinned)
    BY <2>4 DEF Surjection
  <2>6. Cardinality(Slots!Pinned) <= Cardinality(D) /\ IsFiniteSet(Slots!Pinned)
        /\ (Cardinality(Slots!Pinned) = Cardinality(D) <=> f \in Injection(D, Slots!Pinned))
    BY <2>2, <2>5, FS_Surjection
  <2>7. Cardinality(Slots!Pinned) \in Nat /\ Cardinality(D) \in Nat
    BY <2>2, <2>6, FS_CardinalityType
  <2>8. ~(Cardinality(Slots!Pinned) < Cardinality(D))
    BY SizeOfSlots DEF Slots!Collides
  <2>9. f \in Injection(D, Slots!Pinned)
    BY <2>6, <2>7, <2>8
  <2>10. f[v] # f[w]
    BY <1>7, <2>9 DEF Injection, IsInjective
  <2> QED BY <1>1, <1>7, <2>10
<1>8. ASSUME (v \in D /\ w \in Unpinned) \/ (v \in Unpinned /\ w \in D) PROVE Slots!Slot(v) # Slots!Slot(w)
  BY <1>1, <1>3, <1>4, <1>8 DEF Slots!Free
<1>9. Slots!Slot(v) # Slots!Slot(w)
  BY <1>2, <1>6, <1>7, <1>8
<1>10. startSlot = 1 => Slots!Slot(v) # 0
  <2> SUFFICES ASSUME startSlot = 1 PROVE Slots!Slot(v) # 0
    OBVIOUS
  <2>1. v \in Unpinned
    BY DEF SlotsTyped, Unpinned
  <2> QED BY <1>3, <2>1 DEF Slots!Free
<1> QED BY <1>1, <1>2, <1>3, <1>9, <1>10

\* The columns of a grid.
LEMMA ColumnsPositive ==
  ASSUME SlotsTyped, ~Slots!Collides, ids # {} PROVE Slots!Columns \in Nat \ {0}
<1> DEFINE K == Slots!Count - 1
           enough(c) == c * c >= K
           T == {c \in Nat \ {0} : enough(c)}
<1>1. K \in Nat /\ Slots!Count \in Nat
  <2>1. \A v \in ids : Slots!Slot(v) \in 0..LastSlot
    <3> SUFFICES ASSUME NEW v \in ids PROVE Slots!Slot(v) \in 0..LastSlot
      OBVIOUS
    <3>1. CASE v \in DOMAIN pins
      BY <3>1, SlotBounds DEF Slots!Slot, SlotsTyped, LastSlot
    <3>2. CASE v \notin DOMAIN pins
      BY <3>2, UnpinnedSlot DEF Unpinned
    <3> QED BY <3>1, <3>2
  <2>2. Slots!Slots # {} /\ Slots!Slots \subseteq 0..LastSlot
    BY <2>1 DEF Slots!Slots
  <2>3. \E m \in Slots!Slots : \A x \in Slots!Slots : x <= m
    BY <2>2, SlotBounds, GreatestNatural
  <2>4. (CHOOSE m \in Slots!Slots : \A x \in Slots!Slots : x <= m) \in Slots!Slots
    BY <2>3
  <2>5. PICK top \in 0..LastSlot : Slots!Count = 1 + top
    BY <2>2, <2>4 DEF Slots!Count
  <2> QED BY <2>5, SlotBounds
<1>0. Slots!Count = K + 1
  BY <1>1
<1> HIDE DEF K
<1>2. K + 1 \in T
  <2>1. K + 1 \in Nat \ {0} /\ K * K \in Nat
    BY <1>1
  <2>2. (K + 1) * (K + 1) = K * K + K + K + 1
    BY <1>1
  <2>3. (K + 1) * (K + 1) >= K
    BY <1>1, <2>1, <2>2
  <2> QED BY <2>1, <2>3
<1> HIDE DEF enough
<1>3. PICK c \in T : \A m \in T : c <= m
  <2>1. T \in SUBSET Nat /\ T # {}
    BY <1>2
  <2> HIDE DEF T
  <2> QED BY <2>1, LeastNatural
<1>4. c \in 1..(K + 1) /\ c \in Nat /\ enough(c)
  BY <1>1, <1>2, <1>3
<1>5. c = 1 \/ ~enough(c - 1)
  <2> SUFFICES ASSUME c # 1 PROVE ~enough(c - 1)
    OBVIOUS
  <2>1. c - 1 \in Nat \ {0} /\ c - 1 \notin T
    BY <1>3, <1>4
  <2> QED BY <2>1
<1>7. \E d \in 1..(Slots!Count + 1) :
        d * d >= Slots!Count - 1 /\ (d = 1 \/ (d - 1) * (d - 1) < Slots!Count - 1)
  <2>1. Slots!Count - 1 = K
    BY DEF K
  <2>2. c \in 1..(Slots!Count + 1)
    BY <1>0, <1>1, <1>4
  <2>3. c * c >= K
    BY <1>4 DEF enough
  <2>4. c = 1 \/ (c - 1) * (c - 1) < K
    <3> SUFFICES ASSUME c # 1 PROVE (c - 1) * (c - 1) < K
      OBVIOUS
    <3>1. ~((c - 1) * (c - 1) >= K)
      BY <1>5 DEF enough
    <3>2. (c - 1) * (c - 1) \in Int
      BY <1>4
    <3> QED BY <1>1, <3>1, <3>2
  <2> QED BY <2>1, <2>2, <2>3, <2>4
<1>8. Slots!Columns \in 1..(Slots!Count + 1)
  BY <1>7 DEF Slots!Columns
<1> QED BY <1>0, <1>1, <1>8

LEMMA DivisionDetermines ==
  ASSUME NEW c \in Nat \ {0}, NEW i \in Nat, NEW j \in Nat, i \div c = j \div c, i % c = j % c
  PROVE  i = j
<1>1. i = c * (i \div c) + (i % c)
  OBVIOUS
<1>2. j = c * (j \div c) + (j % c)
  OBVIOUS
<1> QED BY <1>1, <1>2

\* The points of two slots differ, in every shape.
LEMMA OffsetsApart ==
  ASSUME shape \in Slots!Shapes, Slots!Columns \in Nat \ {0},
         NEW i \in Nat, NEW j \in Nat, i # j
  PROVE  Slots!Offset(i) # Slots!Offset(j)
<1> DEFINE C == Slots!Columns
<1>1. ASSUME NEW k \in Nat
      PROVE  /\ Slots!Rank(k) \in Nat /\ (k # 0 => Slots!Rank(k) # 0)
             /\ Slots!Side(k) \in {1, -1}
             /\ Slots!Side(k) = 1 => k = 2 * Slots!Rank(k) - 1
             /\ Slots!Side(k) = -1 => k = 2 * Slots!Rank(k)
  BY DEF Slots!Rank, Slots!Side
<1>2. ASSUME NEW k \in Nat, k # 0
      PROVE  /\ (k - 1) \div C \in Nat /\ (k - 1) % C \in Nat /\ k - 1 \in Nat
  BY <1>2
<1>3. ASSUME NEW k \in Nat, k # 0
      PROVE  /\ shape = "line"   => Slots!Offset(k) = <<0, 2 * Slots!Side(k) * Slots!Rank(k)>>
             /\ shape = "column" => Slots!Offset(k) = <<-2 * k, 0>>
             /\ shape = "wedge"  => Slots!Offset(k) = <<-2 * Slots!Rank(k), 2 * Slots!Side(k) * Slots!Rank(k)>>
             /\ shape = "circle" => Slots!Offset(k) = <<1, k - 1>>
             /\ shape = "grid"   => Slots!Offset(k) = <<-2 * (((k - 1) \div C) + 1), 2 * ((k - 1) % C) - (C - 1)>>
  BY <1>3 DEF Slots!Offset
<1>4. Slots!Offset(0) = <<0, 0>>
  BY DEF Slots!Offset
<1>5. ASSUME NEW k \in Nat, k # 0 PROVE Slots!Offset(k) # Slots!Offset(0)
  <2>1. CASE shape \in {"line", "wedge"}
    <3> DEFINE a == Slots!Rank(k)
               s == Slots!Side(k)
    <3>1. a \in Nat \ {0} /\ s \in {1, -1}
      BY <1>1, <1>5
    <3>2. Slots!Offset(k)[2] = 2 * s * a
      BY <1>3, <1>5, <2>1
    <3> HIDE DEF a, s
    <3>3. 2 * s * a # 0
      <4>1. CASE s = 1
        BY <3>1, <4>1
      <4>2. CASE s = -1
        BY <3>1, <4>2
      <4> QED BY <3>1, <4>1, <4>2
    <3> QED BY <1>4, <3>2, <3>3
  <2>2. CASE shape \in {"column", "circle"}
    BY <1>3, <1>4, <1>5, <2>2
  <2>3. CASE shape = "grid"
    <3>1. -2 * (((k - 1) \div C) + 1) # 0
      BY <1>2, <1>5
    <3> QED BY <1>3, <1>4, <1>5, <2>3, <3>1
  <2> QED BY <2>1, <2>2, <2>3 DEF Slots!Shapes
<1>6. ASSUME i # 0, j # 0 PROVE Slots!Offset(i) # Slots!Offset(j)
  <2>1. CASE shape \in {"line", "wedge"}
    <3>1. 2 * Slots!Side(i) * Slots!Rank(i) # 2 * Slots!Side(j) * Slots!Rank(j)
      <4> DEFINE a == Slots!Rank(i)
                 b == Slots!Rank(j)
      <4>1. a \in Nat \ {0} /\ b \in Nat \ {0}
        BY <1>1, <1>6
      <4>2. CASE Slots!Side(i) = Slots!Side(j)
        BY <1>1, <4>1, <4>2
      <4>3. CASE Slots!Side(i) # Slots!Side(j)
        BY <1>1, <4>1, <4>3
      <4> QED BY <4>2, <4>3
    <3> QED BY <1>3, <1>6, <2>1, <3>1
  <2>2. CASE shape \in {"column", "circle"}
    BY <1>3, <1>6, <2>2
  <2>3. CASE shape = "grid"
    <3> DEFINE r(k) == (k - 1) \div C
               m(k) == (k - 1) % C
    <3>1. r(i) \in Nat /\ r(j) \in Nat /\ m(i) \in Nat /\ m(j) \in Nat
      BY <1>2, <1>6
    <3>2. r(i) # r(j) \/ m(i) # m(j)
      <4>1. i - 1 \in Nat /\ j - 1 \in Nat /\ C \in Nat \ {0}
        BY <1>2, <1>6
      <4> HIDE DEF C
      <4>2. r(i) = r(j) /\ m(i) = m(j) => i - 1 = j - 1
        BY <4>1, DivisionDetermines
      <4> QED BY <4>2
    <3>3. Slots!Offset(i) = <<-2 * (r(i) + 1), 2 * m(i) - (C - 1)>>
          /\ Slots!Offset(j) = <<-2 * (r(j) + 1), 2 * m(j) - (C - 1)>>
      BY <1>3, <1>6, <2>3
    <3>4. C \in Nat
      BY DEF C
    <3> HIDE DEF r, m, C
    <3>5. -2 * (r(i) + 1) # -2 * (r(j) + 1) \/ 2 * m(i) - (C - 1) # 2 * m(j) - (C - 1)
      BY <3>1, <3>2, <3>4
    <3> QED BY <3>3, <3>5
  <2> QED BY <2>1, <2>2, <2>3 DEF Slots!Shapes
<1> QED BY <1>5, <1>6

SlotsInv == SlotsTyped /\ Slots!EachAlone

LEMMA SlotsNext == ASSUME SlotsInv, [Slots!Next]_(Slots!vars) PROVE SlotsInv'
<1>1. UNCHANGED <<shape, ids, pins, startSlot>>
  BY DEF Slots!Next, Slots!FormationTargets, Slots!vars
<1>2. SlotsTyped'
  BY <1>1 DEF SlotsInv, SlotsTyped
<1>3. CASE UNCHANGED <<answer, points>>
  BY <1>1, <1>2, <1>3 DEF SlotsInv, Slots!EachAlone
<1>4. CASE answer' # "targets"
  BY <1>2, <1>4 DEF SlotsInv, Slots!EachAlone
<1>5. CASE ~Slots!Collides /\ points' = [v \in ids |-> Slots!Offset(Slots!Slot(v))]
  <2>1. ASSUME NEW v \in ids, NEW w \in ids, v # w PROVE points'[v] # points'[w]
    <3>1. Slots!Slot(v) \in Nat /\ Slots!Slot(w) \in Nat /\ Slots!Slot(v) # Slots!Slot(w)
      BY <1>5, <2>1, SlotsApart, SlotBounds DEF SlotsInv
    <3>2. Slots!Offset(Slots!Slot(v)) # Slots!Offset(Slots!Slot(w))
      BY <1>5, <3>1, OffsetsApart, ColumnsPositive DEF SlotsInv, SlotsTyped
    <3> QED BY <1>5, <3>2
  <2>2. ASSUME NEW v \in ids, startSlot = 1 PROVE points'[v] # <<0, 0>>
    <3>1. Slots!Slot(v) \in Nat /\ Slots!Slot(v) # 0
      <4>1. v \in Unpinned
        BY <2>2 DEF SlotsInv, SlotsTyped, Unpinned
      <4> QED BY <2>2, <4>1, UnpinnedSlot, SlotBounds DEF SlotsInv, Slots!Free
    <3>2. Slots!Offset(Slots!Slot(v)) # Slots!Offset(0)
      BY <1>5, <3>1, OffsetsApart, ColumnsPositive DEF SlotsInv, SlotsTyped
    <3> QED BY <1>5, <3>2 DEF Slots!Offset
  <2> QED BY <1>1, <1>2, <2>1, <2>2 DEF SlotsInv, Slots!EachAlone
<1>6. UNCHANGED <<answer, points>> \/ answer' # "targets"
      \/ (~Slots!Collides /\ points' = [v \in ids |-> Slots!Offset(Slots!Slot(v))])
  BY DEF Slots!Next, Slots!FormationTargets, Slots!vars
<1> QED BY <1>2, <1>3, <1>4, <1>5, <1>6 DEF SlotsInv

LEMMA SlotsStart ==
  ASSUME NEW s \in Slots!Shapes, NEW list \in SUBSET Vehicles, NEW map, NEW first \in {0, 1},
         DOMAIN map \subseteq Vehicles, \A v \in DOMAIN map : map[v] \in 0..MaxPin,
         first = 1 => DOMAIN map = {}, Slots!Start(s, list, map, first)
  PROVE  SlotsInv
BY DEF Slots!Start, SlotsInv, SlotsTyped, Slots!EachAlone

LEMMA SlotsInit == Slots!Init => SlotsInv
<1>1. \A map \in Slots!PartialMaps : DOMAIN map \subseteq Vehicles /\ \A v \in DOMAIN map : map[v] \in 0..MaxPin
  BY DEF Slots!PartialMaps
<1>2. DOMAIN [v \in {} |-> 0] = {}
  OBVIOUS
<1> QED BY <1>1, <1>2, SlotsStart DEF Slots!Init

\* For any list of vehicles, any slots pinned and every shape: the vehicles of a
\* formation have points of their own, and no follower its leader's.
THEOREM VehiclesApart == Slots!Spec => []Slots!EachAlone
<1>1. SlotsInv /\ [Slots!Next]_(Slots!vars) => SlotsInv'
  BY SlotsNext
<1>2. SlotsInv => Slots!EachAlone
  BY DEF SlotsInv
<1> QED BY SlotsInit, <1>1, <1>2, PTL DEF Slots!Spec

-----------------------------------------------------------------------------
(* The package: one component runs, the others stay where they begin *)

LEMMA EmptyList == <<>> \in Fan!TargetLists
<1>1. <<>> \in [1..0 -> Sysids \cup {Fan!Broadcast}] /\ 0 \in 0..MaxTargets
  BY FanoutAssumption
<1> QED BY <1>1 DEF Fan!TargetLists

\* What NodesSpec runs of a fan-out, of a move node and of the nodes that act on
\* a vehicle is what their specifications allow.
LEMMA NodesRunFanout == NodesSpec => Fan!Spec
<1>1. NodesInit => Fan!Init
  <2>1. QuietFanout \in Fan!Configs
    BY NodesAssumption DEF QuietFanout, Fan!Configs
  <2>2. Fan!Start(QuietFanout, <<>>) => Fan!Init
    BY <2>1, EmptyList DEF Fan!Init
  <2> QED BY <2>2 DEF NodesInit
<1>2. ASSUME [NodesNext]_nodes PROVE [Fan!Next]_(Fan!vars)
  BY <1>2 DEF NodesNext, nodes, fanoutVars, Fan!vars
<1> QED BY <1>1, <1>2, PTL DEF NodesSpec, Fan!Spec

LEMMA NodesRunMove == NodesSpec => Move!Spec
<1>1. NodesInit => Move!Init
  <2>1. Move!Start("build", FALSE) => Move!Init
    BY DEF Move!Init
  <2> QED BY <2>1 DEF NodesInit
<1>2. ASSUME [NodesNext]_nodes PROVE [Move!Next]_(Move!vars)
  BY <1>2 DEF NodesNext, nodes, moveVars, Move!vars, Move!streamVars
<1> QED BY <1>1, <1>2, PTL DEF NodesSpec, Move!Spec

LEMMA NodesRunAction == NodesSpec => Action!Spec
<1>1. NodesInit => Action!Init
  <2>1. Action!Start("command", "build") => Action!Init
    BY DEF Action!Init, Action!Configured, Action!Locks, Action!Kinds
  <2> QED BY <2>1 DEF NodesInit
<1>2. ASSUME [NodesNext]_nodes PROVE [Action!Next]_(Action!vars)
  BY <1>2 DEF NodesNext, nodes, actionVars, Action!vars, Action!config
<1> QED BY <1>1, <1>2, PTL DEF NodesSpec, Action!Spec

\* After a close, and after an error with stop-on-error, no vehicle of a fan-out
\* is commanded any more, whatever settles later.
THEOREM NodesHaltDispatch == NodesSpec => HaltsDispatch
BY NodesRunFanout, DispatchHalts, PTL DEF HaltsDispatch

\* A stream that is stopped says nothing until the next input, and a node that is
\* closed nothing at all, however many sends and workflows still settle.
THEOREM NodesStoppedSilent == NodesSpec => StoppedIsSilent
BY NodesRunMove, NodesRunAction, StoppedStreamIsSilent, ClosedNodeIsSilent, ActionsAnswerTruly, PTL
   DEF StoppedIsSilent

\* For any components and places: a vehicle that joined a formation has been
\* sent to its slot once an evaluation got past the rate limit.
THEOREM NodesNewcomersPlaced == NodesSpec => []NewcomersPlaced
<1>1. NodesInit => FormationInv
  BY FormationStart DEF NodesInit, Form!Init
<1>2. ASSUME [NodesNext]_nodes PROVE [Form!Next]_(Form!vars)
  BY <1>2 DEF NodesNext, nodes, formationVars, Form!vars, Form!formation, Form!history
<1>3. FormationInv /\ [NodesNext]_nodes => FormationInv'
  BY <1>2, FormationNext
<1>4. FormationInv => NewcomersPlaced
  BY DEF FormationInv, NewcomersPlaced
<1> QED BY <1>1, <1>3, <1>4, PTL DEF NodesSpec

\* The places of the nodes at the start: nothing is built yet.
LEMMA PlacesStart == ASSUME NodesInit PROVE FormsBuilt /\ SetpointInv /\ SlotsInv
<1>1. FormsBuilt
  <2>1. NoPosition \in FanMessage!Specs
    BY DEF NoPosition, FanMessage!Specs, FanMessage!Positions
  <2>2. \E s \in FanMessage!Specs : FanMessage!Start(s)
    BY <2>1 DEF NodesInit, FanMessage!Init
  <2> QED BY <2>2, FormsStart
<1>2. SetpointInv
  <2>1. message = Point!None
    BY DEF NodesInit, Point!Init, Point!Start
  <2> QED BY <2>1 DEF SetpointInv
<1>3. SlotsInv
  <2>1. DOMAIN NoPins = {}
    BY DEF NoPins
  <2>2. Slots!Start("line", {}, NoPins, 0) => SlotsInv
    BY <2>1, SlotsStart DEF Slots!Shapes
  <2> QED BY <2>2, SlotsInit DEF NodesInit
<1> QED BY <1>1, <1>2, <1>3

\* For any target of a fan-out command, any fields, frame and mask of a setpoint,
\* and any list, pinned slots and shape of a formation: no vehicle is sent to a
\* place nobody asked for, or to that of another one.
THEOREM NodesSentWhereAsked == NodesSpec => []SentWhereAsked
<1>1. ASSUME [NodesNext]_nodes PROVE [FanMessage!Next]_(FanMessage!vars)
  BY <1>1 DEF NodesNext, nodes, messageVars, FanMessage!vars
<1>2. ASSUME [NodesNext]_nodes PROVE [Point!Next]_(Point!vars)
  BY <1>2 DEF NodesNext, nodes, setpointVars, Point!vars
<1>3. ASSUME [NodesNext]_nodes PROVE [Slots!Next]_(Slots!vars)
  BY <1>3 DEF NodesNext, nodes, slotVars, Slots!vars
<1>4. FormsBuilt /\ [NodesNext]_nodes => FormsBuilt'
  BY <1>1, FormsNext
<1>5. SetpointInv /\ [NodesNext]_nodes => SetpointInv'
  BY <1>2, SetpointNext
<1>6. SlotsInv /\ [NodesNext]_nodes => SlotsInv'
  BY <1>3, SlotsNext
<1>7. FormsBuilt /\ SetpointInv /\ SlotsInv => SentWhereAsked
  BY FormsAgree, SetpointTrue DEF SlotsInv, SentWhereAsked
<1> QED BY PlacesStart, <1>4, <1>5, <1>6, <1>7, PTL DEF NodesSpec

\* The lifecycle of the connection is that of its module.
LEMMA NodesRunLifecycle == NodesSpec => Spec
<1>1. NodesInit => Init
  BY DEF NodesInit
<1>2. ASSUME [NodesNext]_nodes PROVE [Next]_vars
  BY <1>2 DEF NodesNext, nodes
<1> QED BY <1>1, <1>2, PTL DEF NodesSpec, Spec

\* Through any deploys and teardowns of the connection: nothing starts on a
\* closed node, one that answered its close has released every port, and up to
\* a second teardown no transport starts while another one holds its port.
THEOREM NodesLifecycle ==
  NodesSpec => []ClosedForGood /\ PortFreeInOneTeardown
BY NodesRunLifecycle, ClosedStaysClosed, ClosedIsReleased, PortIsFree, PTL DEF ClosedForGood

\* For any targets, inputs, deploys and teardowns: a connection that is to come
\* up has a restart pending, a dispatcher that waits has a worker, a stream with a
\* time to live its deadline, and a lock the workflow that releases it.
THEOREM NodesNobodyWaits == NodesSpec => []NobodyWaitsInVain
BY NodesRunLifecycle, NodesRunFanout, NodesRunMove, NodesRunAction, NothingHangs,
   DispatcherNeverStuck, DeadlineArmed, LocksFollowWorkflows, PTL DEF NobodyWaitsInVain

-----------------------------------------------------------------------------
(* The vehicle state *)

\* The records of the engine, the snapshots of them, and what a consumer of the
\* transitions can know.
VehicleRecords ==
  {r \in [known : BOOLEAN, autopilot : State!Ages, armed : BOOLEAN, mode : Modes \cup {0},
          component : State!Ages, health : {"unseen", "healthy", "unhealthy"}] :
     r.autopilot # "none" => r.mode \in Modes}
VehicleSnapshots ==
  [known : BOOLEAN, connected : BOOLEAN, armed : {"unknown", "yes", "no"}, mode : Modes \cup {0},
   component : BOOLEAN, health : {"unseen", "healthy", "unhealthy"}]
Knowledge ==
  [connected : BOOLEAN, armed : {"unknown", "yes", "no"}, mode : Modes \cup {0},
   component : BOOLEAN, health : {"unseen", "healthy", "unhealthy"}]

\* A consumer that knows k has been told truly of the snapshot s.
Truly(k, s) ==
  /\ k.connected = s.connected
  /\ k.armed \in {"unknown", s.armed}
  /\ k.mode \in {0, s.mode}
  /\ k.component => s.component
  /\ k.health \in {"unseen", s.health}

\* The baseline s is an earlier snapshot of the vehicle whose record is r.
Earlier(s, r) ==
  /\ ~s.known => s = State!NoSnapshot
  /\ s.armed # "unknown" \/ s.mode # 0 => r.autopilot # "none"

StateInv ==
  /\ record \in VehicleRecords /\ baseline \in VehicleSnapshots /\ told \in Knowledge
  /\ ~stateClosed => Truly(told, baseline) /\ Earlier(baseline, record)

LEMMA SnapshotTyped ==
  ASSUME NEW r \in VehicleRecords
  PROVE  /\ State!Snapshot(r) \in VehicleSnapshots
         /\ r.known => Earlier(State!Snapshot(r), r)
<1>1. r.known \in BOOLEAN /\ r.mode \in Modes \cup {0} /\ r.health \in {"unseen", "healthy", "unhealthy"}
  BY DEF VehicleRecords
<1>2. State!Snapshot(r) \in VehicleSnapshots
  BY <1>1 DEF State!Snapshot, VehicleSnapshots
<1>3. r.known => Earlier(State!Snapshot(r), r)
  BY DEF State!Snapshot, Earlier
<1> QED BY <1>2, <1>3

\* The transitions between an earlier snapshot and one of the record now keep
\* their consumer told truly.
LEMMA FoldsTruly ==
  ASSUME NEW r \in VehicleRecords, NEW b \in VehicleSnapshots, NEW k \in Knowledge,
         r.known, Earlier(b, r), Truly(k, b)
  PROVE  LET s == State!Snapshot(r)
             f == State!Folded(k, s, State!Events(b, s))
         IN  f \in Knowledge /\ Truly(f, s)
<1> DEFINE s == State!Snapshot(r)
           e == State!Events(b, s)
           f == State!Folded(k, s, e)
<1>1. s \in VehicleSnapshots
  BY SnapshotTyped
<1>2. /\ s.armed = "unknown" <=> r.autopilot = "none"
      /\ s.mode = 0 <=> r.autopilot = "none"
  BY NodesAssumption DEF State!Snapshot, VehicleRecords
<1>3. /\ "connected" \in e <=> s.connected # b.connected
      /\ "armed" \in e <=> b.known /\ s.armed # b.armed /\ s.armed # "unknown"
      /\ "mode" \in e <=> b.known /\ s.mode # b.mode /\ s.mode # 0
      /\ "component" \in e <=> b.known /\ s.component # b.component
      /\ "health" \in e <=> b.known /\ s.health # b.health
                              /\ ~(b.health = "unseen" /\ s.health = "healthy")
  <2> HIDE DEF s
  <2> QED BY DEF State!Events
<1>4. ~b.known => b.armed = "unknown" /\ b.mode = 0 /\ ~b.component /\ b.health = "unseen"
  <2>1. /\ State!NoSnapshot.armed = "unknown" /\ State!NoSnapshot.mode = 0
        /\ State!NoSnapshot.health = "unseen"
    BY DEF State!NoSnapshot, State!NoRecord, State!Snapshot
  <2>2. ~State!NoSnapshot.component
    <3>1. State!NoRecord.component # "fresh"
      BY DEF State!NoRecord
    <3> QED BY <3>1, Zenon DEF State!NoSnapshot, State!Snapshot
  <2> QED BY <2>1, <2>2, Zenon DEF Earlier
<1>5. b.armed # "unknown" \/ b.mode # 0 => r.autopilot # "none"
  BY DEF Earlier
<1> HIDE DEF s, e
<1>6. f \in Knowledge
  <2>1. /\ s.connected \in BOOLEAN /\ s.armed \in {"unknown", "yes", "no"} /\ s.mode \in Modes \cup {0}
        /\ s.component \in BOOLEAN /\ s.health \in {"unseen", "healthy", "unhealthy"}
    BY <1>1 DEF VehicleSnapshots
  <2>2. /\ k.connected \in BOOLEAN /\ k.armed \in {"unknown", "yes", "no"} /\ k.mode \in Modes \cup {0}
        /\ k.component \in BOOLEAN /\ k.health \in {"unseen", "healthy", "unhealthy"}
    BY DEF Knowledge
  <2> QED BY <2>1, <2>2 DEF State!Folded, Knowledge
<1>7. f.connected = s.connected
  BY <1>3 DEF State!Folded, Truly
<1>8. f.armed \in {"unknown", s.armed}
  BY <1>2, <1>3, <1>4, <1>5 DEF State!Folded, Truly
<1>9. f.mode \in {0, s.mode}
  BY <1>2, <1>3, <1>4, <1>5 DEF State!Folded, Truly
<1>10. f.component => s.component
  BY <1>3, <1>4 DEF State!Folded, Truly
<1>11. f.health \in {"unseen", s.health}
  BY <1>3, <1>4 DEF State!Folded, Truly
<1>12. f \in Knowledge /\ Truly(f, s)
  BY <1>6, <1>7, <1>8, <1>9, <1>10, <1>11 DEF Truly
<1> QED BY <1>12 DEF s, e

LEMMA NothingKnown ==
  /\ State!NoRecord \in VehicleRecords /\ State!NoSnapshot \in VehicleSnapshots
  /\ State!NothingTold \in Knowledge
  /\ Truly(State!NothingTold, State!NoSnapshot) /\ Earlier(State!NoSnapshot, State!NoRecord)
<1>1. State!NoRecord \in VehicleRecords
  BY DEF State!NoRecord, VehicleRecords, State!Ages
<1>2. State!NoSnapshot \in VehicleSnapshots
  BY <1>1, SnapshotTyped DEF State!NoSnapshot
<1>3. State!NothingTold \in Knowledge
  BY DEF State!NothingTold, Knowledge
<1>4. Truly(State!NothingTold, State!NoSnapshot) /\ Earlier(State!NoSnapshot, State!NoRecord)
  BY DEF State!NothingTold, State!NoSnapshot, State!NoRecord, State!Snapshot, Truly, Earlier
<1> QED BY <1>1, <1>2, <1>3, <1>4

LEMMA StateStart == State!Init => StateInv
BY NothingKnown DEF State!Init, StateInv

\* emitTransitions of a record that follows the present one.
LEMMA EmitKeeps ==
  ASSUME StateInv, NEW r \in VehicleRecords, record.autopilot # "none" => r.autopilot # "none",
         State!EmitTransitions(r), record' = r, stateClosed' = stateClosed
  PROVE  StateInv'
<1>1. CASE ~r.known
  <2>1. baseline' = baseline /\ told' = told
    BY <1>1 DEF State!EmitTransitions
  <2>2. ~stateClosed => Truly(told, baseline) /\ Earlier(baseline, r)
    BY DEF StateInv, Earlier
  <2> QED BY <2>1, <2>2 DEF StateInv
<1>2. CASE r.known
  <2>1. /\ baseline' = State!Snapshot(r)
        /\ told' = State!Folded(told, State!Snapshot(r), State!Events(baseline, State!Snapshot(r)))
    BY <1>2 DEF State!EmitTransitions
  <2>2. baseline' \in VehicleSnapshots /\ Earlier(baseline', r)
    BY <1>2, <2>1, SnapshotTyped
  <2>3. told' \in Knowledge
    <3>1. State!Snapshot(r) \in VehicleSnapshots /\ told \in Knowledge
      BY SnapshotTyped DEF StateInv
    <3> QED BY <2>1, <3>1 DEF State!Folded, Knowledge, VehicleSnapshots
  <2>4. ASSUME ~stateClosed PROVE Truly(told', baseline')
    <3>1. Truly(told, baseline) /\ Earlier(baseline, r)
      BY <2>4 DEF StateInv, Earlier
    <3>2. baseline \in VehicleSnapshots /\ told \in Knowledge
      BY DEF StateInv
    <3> QED BY <1>2, <2>1, <3>1, <3>2, FoldsTruly
  <2> QED BY <2>2, <2>3, <2>4 DEF StateInv
<1> QED BY <1>1, <1>2

\* A message leaves a record of the engine in which an autopilot that was heard
\* still is one.
LEMMA IngestTyped ==
  ASSUME record \in VehicleRecords, State!Ingest
  PROVE  record' \in VehicleRecords /\ (record.autopilot # "none" => record'.autopilot # "none")
<1>1. record \in [known : BOOLEAN, autopilot : State!Ages, armed : BOOLEAN, mode : Modes \cup {0},
                 component : State!Ages, health : {"unseen", "healthy", "unhealthy"}]
      /\ (record.autopilot # "none" => record.mode \in Modes)
  BY DEF VehicleRecords
<1>2. ASSUME NEW armed \in BOOLEAN, NEW mode \in Modes, record' = State!Heartbeat(armed, mode)
      PROVE  record' \in VehicleRecords /\ (record.autopilot # "none" => record'.autopilot # "none")
  BY <1>1, <1>2 DEF State!Heartbeat, VehicleRecords, State!Ages
<1>3. CASE record' = State!ComponentHeartbeat
  BY <1>1, <1>3 DEF State!ComponentHeartbeat, VehicleRecords, State!Ages
<1>4. CASE record' = State!StatusText
  BY <1>1, <1>4 DEF State!StatusText, VehicleRecords, State!Ages
<1>5. CASE record' = State!SysStatus(TRUE)
  BY <1>1, <1>5 DEF State!SysStatus, VehicleRecords, State!Ages
<1>6. CASE record' = State!SysStatus(FALSE)
  BY <1>1, <1>6 DEF State!SysStatus, VehicleRecords, State!Ages
<1>7. CASE \E armed \in BOOLEAN, mode \in Modes : record' = State!Heartbeat(armed, mode)
  BY <1>2, <1>7, Zenon
<1> QED BY <1>3, <1>4, <1>5, <1>6, <1>7 DEF State!Ingest

LEMMA StateNext == StateInv /\ [State!Next]_(State!vars) => StateInv'
<1> SUFFICES ASSUME StateInv, [State!Next]_(State!vars) PROVE StateInv'
  OBVIOUS
<1>1. record \in VehicleRecords
  BY DEF StateInv
<1>2. CASE State!Receive
  <2>1. /\ record' \in VehicleRecords
        /\ record.autopilot # "none" => record'.autopilot # "none"
    BY <1>1, <1>2, IngestTyped DEF State!Receive
  <2>2. State!EmitTransitions(record') /\ stateClosed' = stateClosed
    BY <1>2 DEF State!Receive
  <2> QED BY <2>1, <2>2, EmitKeeps
<1>3. CASE State!Silence
  <2>1. UNCHANGED <<baseline, told, stateClosed>>
    BY <1>3 DEF State!Silence
  <2>2. /\ record' \in VehicleRecords
        /\ record.autopilot # "none" => record'.autopilot # "none"
    <3>1. record \in [known : BOOLEAN, autopilot : State!Ages, armed : BOOLEAN, mode : Modes \cup {0},
                     component : State!Ages, health : {"unseen", "healthy", "unhealthy"}]
          /\ (record.autopilot # "none" => record.mode \in Modes)
      BY <1>1 DEF VehicleRecords
    <3>2. CASE record.autopilot = "fresh" /\ record' = [record EXCEPT !.autopilot = "stale"]
      BY <3>1, <3>2 DEF VehicleRecords, State!Ages
    <3>3. CASE record.component = "fresh" /\ record' = [record EXCEPT !.component = "stale"]
      BY <3>1, <3>3 DEF VehicleRecords, State!Ages
    <3> QED BY <1>3, <3>2, <3>3 DEF State!Silence
  <2> QED BY <2>1, <2>2 DEF StateInv, Earlier
<1>4. CASE State!ReEmitAll
  <2>1. State!EmitTransitions(record) /\ record' = record /\ stateClosed' = stateClosed
    BY <1>4 DEF State!ReEmitAll
  <2> QED BY <1>1, <2>1, EmitKeeps
<1>5. CASE State!EmitSnapshot
  BY <1>5 DEF State!EmitSnapshot, State!vars, StateInv
<1>6. ASSUME NEW present \in BOOLEAN, State!Attach(present) PROVE StateInv'
  BY <1>6, NothingKnown DEF State!Attach, StateInv
<1>7. CASE State!Close
  <2>1. record' \in VehicleRecords /\ baseline' \in VehicleSnapshots
    BY <1>7, NothingKnown DEF State!Close
  <2>2. told' = told /\ stateClosed' = TRUE
    BY <1>7 DEF State!Close
  <2> QED BY <2>1, <2>2 DEF StateInv
<1>8. CASE UNCHANGED State!vars
  BY <1>8 DEF State!vars, StateInv
<1> QED BY <1>2, <1>3, <1>4, <1>5, <1>6, <1>7, <1>8 DEF State!Next

\* For any flight modes and any messages: what a consumer of the transitions has
\* been told is what the last snapshot shows or nothing, through every silence
\* and every rebuild of the engine, until the node is closed.
THEOREM NodesToldTruly == NodesSpec => []State!ToldTruly
<1>1. NodesInit => StateInv
  BY StateStart DEF NodesInit
<1>2. ASSUME [NodesNext]_nodes PROVE [State!Next]_(State!vars)
  BY <1>2 DEF NodesNext, nodes, stateVars, State!vars
<1>3. StateInv /\ [NodesNext]_nodes => StateInv'
  BY <1>2, StateNext
<1>4. StateInv => State!ToldTruly
  BY DEF StateInv, State!ToldTruly, Truly
<1> QED BY <1>1, <1>3, <1>4, PTL DEF NodesSpec

-----------------------------------------------------------------------------
(* The swarm node *)

\* The signature kept for comparison is that of the table emitted last.
SwarmInv == announced = lastSignature

LEMMA SwarmStart == ASSUME NEW on, Swarm!Start(on) PROVE SwarmInv
BY DEF Swarm!Start, Swarm!Signature, Swarm!Snapshot, SwarmInv

LEMMA EmissionSigned ==
  ASSUME SwarmInv, NEW table, Swarm!EmitIfChanged(table)
  PROVE  SwarmInv'
BY DEF Swarm!EmitIfChanged, Swarm!Signature, Swarm!Snapshot, SwarmInv

LEMMA SwarmNext == SwarmInv /\ [Swarm!Next]_(Swarm!vars) => SwarmInv'
<1> SUFFICES ASSUME SwarmInv, [Swarm!Next]_(Swarm!vars) PROVE SwarmInv'
  OBVIOUS
<1>1. ASSUME NEW e \in Entries, NEW m \in Swarm!Messages, NEW p \in Places, Swarm!Receive(e, m, p)
      PROVE  SwarmInv'
  <2> DEFINE heard == Swarm!Ingest(swarmFleet, e, m, p)
  <2>1. Swarm!EmitIfChanged(heard) \/ UNCHANGED <<lastSignature, announced>>
    BY <1>1, Zenon DEF Swarm!Receive
  <2> HIDE DEF heard
  <2>2. CASE Swarm!EmitIfChanged(heard)
    BY <2>2, EmissionSigned
  <2>3. CASE UNCHANGED <<lastSignature, announced>>
    BY <2>3 DEF SwarmInv
  <2> QED BY <2>1, <2>2, <2>3
<1>2. CASE Swarm!ChangeTick
  BY <1>2, EmissionSigned DEF Swarm!ChangeTick
<1>3. CASE UNCHANGED <<lastSignature, announced>>
  BY <1>3 DEF SwarmInv
<1> QED BY <1>1, <1>2, <1>3
      DEF Swarm!Next, Swarm!TimePasses, Swarm!EmitSnapshot, Swarm!Attach, Swarm!Close, Swarm!vars

\* For any components and any ages of theirs: when the signature has not changed,
\* the consumers of the table have it as it is, whatever messages, snapshots on
\* demand and deploys added to it or removed from it in between.
THEOREM NodesQuietIsUpToDate == NodesSpec => []Swarm!QuietIsUpToDate
<1>1. NodesInit => SwarmInv
  <2>1. NodesInit => \E on \in BOOLEAN : Swarm!Start(on)
    BY DEF NodesInit, Swarm!Init
  <2> QED BY <2>1, SwarmStart
<1>2. ASSUME [NodesNext]_nodes PROVE [Swarm!Next]_(Swarm!vars)
  BY <1>2 DEF NodesNext, nodes, swarmVars, Swarm!vars
<1>3. SwarmInv /\ [NodesNext]_nodes => SwarmInv'
  BY <1>2, SwarmNext
<1>4. SwarmInv => Swarm!QuietIsUpToDate
  BY DEF SwarmInv, Swarm!QuietIsUpToDate, Swarm!Signature, Swarm!Snapshot
<1> QED BY <1>1, <1>3, <1>4, PTL DEF NodesSpec

\* What a node reports is what happened, for any vehicles, workers, inputs,
\* connections and modes: a fan-out accounts for every vehicle it was given and
\* runs no more workers than configured, an error names the connection of the
\* send, a quiet swarm node has emitted its table as it is, and the transitions of
\* a vehicle add up to its last snapshot.
THEOREM NodesReportAccounts == NodesSpec => []ReportAccounts
BY NodesRunFanout, NodesRunAction, EveryVehicleReported, WorkersBounded, ActionsAnswerTruly,
   NodesQuietIsUpToDate, NodesToldTruly, PTL DEF ReportAccounts
=============================================================================
