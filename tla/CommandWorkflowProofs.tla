----------------------- MODULE CommandWorkflowProofs -----------------------
(***************************************************************************)
(* Proofs about CommandWorkflow, for any set of workflows, any retry       *)
(* budget and any number of acknowledgements and teardowns.                *)
(***************************************************************************)
EXTENDS CommandWorkflow, TLAPS

\* A workflow has its lock handle and its subscription exactly while it runs.
HandlesWhileRunning ==
  \A w \in Workflows : /\ locked[w] <=> phase[w] \in Running
                       /\ subscribed[w] <=> phase[w] \in Running
                       /\ timer[w] => phase[w] \in Running

\* The key is held only while a workflow that can release it is running.
LockNeverLeaks == lockOwner # Free => \E w \in Workflows : locked[w]

\* A timeout that can retransmit is never armed while a send is pending.
OneSendPending ==
  \A w \in Workflows : phase[w] = "waiting_ack" /\ timer[w] => ~sending[w]

\* Every frame is the first one or accounted for by a retry.
FramesAreRetries ==
  \A w \in Workflows :
    written[w] + (IF sending[w] THEN 1 ELSE 0) <= IF phase[w] = "idle" THEN 0 ELSE retries[w] + 1

Inv ==
  /\ TypeOK
  /\ HandlesWhileRunning
  /\ LockNeverLeaks
  /\ RunningCanEnd
  /\ OneSendPending
  /\ FramesAreRetries

-----------------------------------------------------------------------------
(* Lemmas: each action preserves the invariant *)

LEMMA InitInv == Init => Inv
<1> SUFFICES ASSUME Init PROVE Inv
  OBVIOUS
<1> USE CommandAssumption DEF Init
<1>1. TypeOK
  BY DEF TypeOK, Free, Running, Settled, Results
<1>2. HandlesWhileRunning /\ RunningCanEnd /\ OneSendPending
  BY DEF HandlesWhileRunning, RunningCanEnd, OneSendPending, Running
<1>3. LockNeverLeaks /\ FramesAreRetries
  BY DEF LockNeverLeaks, FramesAreRetries
<1> QED
  BY <1>1, <1>2, <1>3 DEF Inv

\* What TakeDown does, workflow by workflow.
TookDown(ws, how) ==
  /\ phase' \in [Workflows -> {"idle"} \cup Running \cup Settled]
  /\ timer' \in [Workflows -> BOOLEAN]
  /\ subscribed' \in [Workflows -> BOOLEAN]
  /\ locked' \in [Workflows -> BOOLEAN]
  /\ \A w \in ws : phase'[w] = how /\ ~timer'[w] /\ ~subscribed'[w] /\ ~locked'[w]
  /\ \A w \in Workflows \ ws :
       /\ phase'[w] = phase[w]
       /\ timer'[w] <=> timer[w]
       /\ subscribed'[w] <=> subscribed[w]
       /\ locked'[w] <=> locked[w]
  /\ how \notin Running /\ how # "idle"
  /\ UNCHANGED <<retries, waits>>

LEMMA TakeDownType ==
  ASSUME TypeOK, NEW ws \in SUBSET Workflows, NEW how \in Settled, TakeDown(ws, how)
  PROVE  TookDown(ws, how)
  BY DEF TypeOK, TakeDown, Set, TookDown, Settled, Running

\* Settling a set of running workflows releases the key if it is theirs.
LEMMA SettleLock ==
  ASSUME Inv, NEW ws \in SUBSET Workflows, NEW how \in Settled, Settle(ws, how),
         \A w \in ws : phase[w] \in Running
  PROVE  LockNeverLeaks' /\ lockOwner' \in {Free, Owner}
<1> USE DEF Inv
<1>1. lockOwner' \in {Free, Owner}
  BY DEF Settle, TypeOK
<1>2. CASE ws = {}
  <2>1. TookDown(ws, how)
    BY TakeDownType DEF Settle
  <2> QED
    BY <1>1, <1>2, <2>1 DEF Settle, LockNeverLeaks, TookDown
<1>3. CASE ws # {}
  <2>1. \E w \in ws : Releases(w, how)
    BY <1>3 DEF Releases, HandlesWhileRunning
  <2>2. lockOwner' = Free
    BY <2>1 DEF Settle, TypeOK
  <2> QED
    BY <1>1, <2>2 DEF LockNeverLeaks
<1> QED
  BY <1>1, <1>2, <1>3

LEMMA SettleInv ==
  ASSUME Inv, NEW ws \in SUBSET Workflows, NEW how \in Settled, Settle(ws, how),
         \A w \in ws : phase[w] \in Running,
         sending' = sending, UNCHANGED <<active, teardowns, written>>,
         received' \subseteq Workflows, acks' \subseteq Results, acksSent' \in 0..MaxAcks
  PROVE  Inv'
<1> USE DEF Inv
<1>0. TookDown(ws, how)
  BY TakeDownType DEF Settle
<1>1. TypeOK'
  BY <1>0, SettleLock DEF TypeOK, TookDown
<1>2. HandlesWhileRunning'
  BY <1>0 DEF HandlesWhileRunning, TookDown
<1>3. RunningCanEnd'
  BY <1>0 DEF RunningCanEnd, TookDown
<1>4. OneSendPending'
  BY <1>0 DEF OneSendPending, TookDown, Running
<1>5. FramesAreRetries'
  <2> SUFFICES ASSUME NEW w \in Workflows
               PROVE  written'[w] + (IF sending'[w] THEN 1 ELSE 0)
                        <= IF phase'[w] = "idle" THEN 0 ELSE retries'[w] + 1
    BY DEF FramesAreRetries
  <2>1. phase'[w] = "idle" => phase[w] = "idle"
    BY <1>0 DEF TookDown
  <2>2. phase[w] = "idle" => phase'[w] = "idle"
    BY <1>0 DEF TookDown, Running
  <2> QED
    BY <1>0, <2>1, <2>2 DEF FramesAreRetries, TookDown
<1> QED
  BY <1>1, <1>2, <1>3, <1>4, <1>5, SettleLock

LEMMA RunInv ==
  ASSUME Inv, NEW w \in Workflows, Run(w)
  PROVE  Inv'
<1> USE DEF Inv, Run
<1>1. CASE Refused(w)
  <2> USE <1>1 DEF Refused, linkVars
  <2>1. TypeOK'
    BY DEF TypeOK, Settled
  <2>2. HandlesWhileRunning' /\ RunningCanEnd' /\ OneSendPending'
    BY DEF TypeOK, HandlesWhileRunning, RunningCanEnd, OneSendPending, Running
  <2>3. LockNeverLeaks' /\ FramesAreRetries'
    BY CommandAssumption DEF TypeOK, LockNeverLeaks, FramesAreRetries
  <2> QED
    BY <2>1, <2>2, <2>3
<1>2. CASE Started(w)
  <2> USE <1>2 DEF Started, linkVars
  <2>1. TypeOK'
    BY DEF TypeOK, Running
  <2>2. HandlesWhileRunning' /\ RunningCanEnd' /\ OneSendPending'
    BY DEF TypeOK, HandlesWhileRunning, RunningCanEnd, OneSendPending, Running
  <2>3. LockNeverLeaks'
    BY DEF TypeOK, LockNeverLeaks
  <2>4. FramesAreRetries'
    <3> SUFFICES ASSUME NEW v \in Workflows
                 PROVE  written'[v] + (IF sending'[v] THEN 1 ELSE 0)
                          <= IF phase'[v] = "idle" THEN 0 ELSE retries'[v] + 1
      BY DEF FramesAreRetries
    <3>1. CASE v = w
      <4>1. written[v] <= 0 /\ retries[v] >= 0 /\ phase'[v] # "idle"
        BY <3>1, CommandAssumption DEF TypeOK, FramesAreRetries
      <4> QED
        BY <3>1, <4>1, CommandAssumption DEF TypeOK
    <3>2. CASE v # w
      BY <3>2 DEF TypeOK, FramesAreRetries
    <3> QED
      BY <3>1, <3>2
  <2> QED
    BY <2>1, <2>2, <2>3, <2>4
<1>3. CASE StartedInactive(w)
  <2> USE <1>3 DEF StartedInactive, linkVars
  <2>1. TypeOK'
    BY DEF TypeOK, Settled
  <2>2. HandlesWhileRunning' /\ RunningCanEnd' /\ OneSendPending'
    BY DEF TypeOK, HandlesWhileRunning, RunningCanEnd, OneSendPending, Running
  <2>3. LockNeverLeaks' /\ FramesAreRetries'
    BY CommandAssumption DEF TypeOK, LockNeverLeaks, FramesAreRetries
  <2> QED
    BY <2>1, <2>2, <2>3
<1> QED
  BY <1>1, <1>2, <1>3

LEMMA AbortInv ==
  ASSUME Inv, NEW w \in Workflows, Abort(w)
  PROVE  Inv'
<1>1. "aborted" \in Settled
  BY DEF Settled
<1>2. /\ received' \subseteq Workflows
      /\ acks' \subseteq Results
      /\ acksSent' \in 0..MaxAcks
  BY DEF Abort, linkVars, Inv, TypeOK
<1> QED
  BY <1>1, <1>2, SettleInv DEF Abort, linkVars

LEMMA FrameOutType ==
  ASSUME TypeOK, NEW ws \in SUBSET Workflows, FrameOut(ws)
  PROVE  /\ written' \in [Workflows -> Nat]
         /\ received' \subseteq Workflows
         /\ \A w \in Workflows : written'[w] = written[w] + (IF w \in ws THEN 1 ELSE 0)
         /\ UNCHANGED <<acks, acksSent>>
  BY DEF TypeOK, FrameOut

LEMMA SendResolvesInv ==
  ASSUME Inv, NEW w \in Workflows, SendResolves(w)
  PROVE  Inv'
<1> USE DEF Inv, SendResolves
<1>0. /\ written' \in [Workflows -> Nat]
      /\ received' \subseteq Workflows
      /\ \A v \in Workflows : written'[v] = written[v] + (IF v \in {w} THEN 1 ELSE 0)
      /\ UNCHANGED <<acks, acksSent>>
  BY FrameOutType
<1>1. TypeOK'
  <2>1. Arms(w) \in BOOLEAN
    BY DEF Arms
  <2>2. timer' \in [Workflows -> BOOLEAN] /\ sending' \in [Workflows -> BOOLEAN]
    BY <2>1 DEF TypeOK
  <2> QED
    BY <1>0, <2>2 DEF TypeOK
<1>2. HandlesWhileRunning' /\ RunningCanEnd' /\ OneSendPending'
  BY DEF TypeOK, HandlesWhileRunning, RunningCanEnd, OneSendPending, Running, Arms
<1>3. LockNeverLeaks'
  BY DEF LockNeverLeaks
<1>4. FramesAreRetries'
  BY <1>0 DEF TypeOK, FramesAreRetries
<1> QED
  BY <1>1, <1>2, <1>3, <1>4

LEMMA SendRejectsInv ==
  ASSUME Inv, NEW w \in Workflows, SendRejects(w)
  PROVE  Inv'
<1> DEFINE ws == {w} \cap {v \in Workflows : phase[v] \in Running}
<1> USE DEF Inv, SendRejects
<1>a. ws \in SUBSET Workflows /\ "send_failed" \in Settled /\ (\A v \in ws : phase[v] \in Running)
  BY DEF Settled
<1>b. Settle(ws, "send_failed") /\ TookDown(ws, "send_failed")
  BY <1>a, TakeDownType DEF Settle
<1>c. w \notin ws => phase[w] \notin Running
  OBVIOUS
<1> HIDE DEF ws
<1>0. /\ written' \in [Workflows -> Nat]
      /\ received' \subseteq Workflows
      /\ \A v \in Workflows : v # w => written'[v] = written[v]
      /\ written'[w] <= written[w] + 1
      /\ UNCHANGED <<acks, acksSent>>
  <2> PICK gone \in SUBSET {w} : FrameOut(gone)
    OBVIOUS
  <2>1. gone \in SUBSET Workflows
    OBVIOUS
  <2> QED
    BY <2>1, FrameOutType DEF TypeOK
<1>1. TypeOK'
  BY <1>0, <1>a, <1>b, SettleLock DEF TypeOK, TookDown
<1>2. HandlesWhileRunning'
  BY <1>b DEF HandlesWhileRunning, TookDown
<1>3. RunningCanEnd' /\ OneSendPending'
  <2>1. \A v \in Workflows : v # w => sending'[v] = sending[v]
    BY DEF TypeOK
  <2>2. sending'[w] = FALSE /\ phase'[w] \notin Running
    BY <1>b, <1>c DEF TypeOK, TookDown
  <2> QED
    BY <1>b, <2>1, <2>2 DEF RunningCanEnd, OneSendPending, Running, TookDown
<1>4. FramesAreRetries'
  <2> SUFFICES ASSUME NEW v \in Workflows
               PROVE  written'[v] + (IF sending'[v] THEN 1 ELSE 0)
                        <= IF phase'[v] = "idle" THEN 0 ELSE retries'[v] + 1
    BY DEF FramesAreRetries
  <2>1. phase'[v] = "idle" <=> phase[v] = "idle"
    BY <1>a, <1>b DEF Running, TookDown
  <2>2. CASE v = w
    <3>1. sending[w] /\ ~sending'[w] /\ retries'[w] = retries[w]
      BY <1>b DEF TypeOK, TookDown
    <3>2. written[w] \in Nat /\ written'[w] \in Nat /\ retries[w] \in Nat
      <4>1. written[w] \in Nat /\ retries[w] \in 0..MaxRetries
        BY DEF TypeOK
      <4>2. written'[w] \in Nat
        BY <1>0
      <4> QED
        BY <4>1, <4>2, CommandAssumption
    <3>3. written[w] + 1 <= IF phase[w] = "idle" THEN 0 ELSE retries[w] + 1
      BY <3>1 DEF FramesAreRetries
    <3> QED
      BY <1>0, <2>1, <2>2, <3>1, <3>2, <3>3
  <2>3. CASE v # w
    BY <1>0, <1>b, <2>1, <2>3 DEF TypeOK, FramesAreRetries, TookDown
  <2> QED
    BY <2>2, <2>3
<1>5. LockNeverLeaks'
  BY <1>a, <1>b, SettleLock
<1> QED
  BY <1>1, <1>2, <1>3, <1>4, <1>5

LEMMA TimeoutExpiresInv ==
  ASSUME Inv, NEW w \in Workflows, TimeoutExpires(w)
  PROVE  Inv'
<1>1. UNCHANGED <<active, teardowns, written, received, acks, acksSent>> /\ timer[w]
  BY DEF TimeoutExpires, linkVars
<1>2. phase[w] \in Running
  BY <1>1 DEF Inv, HandlesWhileRunning
<1>3. /\ received' \subseteq Workflows
      /\ acks' \subseteq Results
      /\ acksSent' \in 0..MaxAcks
  BY <1>1 DEF Inv, TypeOK
<1>4. CASE Retransmit(w)
  <2> USE <1>1, <1>2, <1>4 DEF Inv, Retransmit
  <2>1. phase[w] = "waiting_ack" /\ ~sending[w]
    BY DEF Retransmits, Running, OneSendPending
  <2>2. TypeOK'
    BY CommandAssumption DEF TypeOK, MayRetry, Running
  <2>3. HandlesWhileRunning' /\ RunningCanEnd' /\ OneSendPending'
    BY DEF TypeOK, HandlesWhileRunning, RunningCanEnd, OneSendPending, Running
  <2>4. LockNeverLeaks'
    BY DEF LockNeverLeaks
  <2>5. FramesAreRetries'
    BY <2>1, CommandAssumption DEF TypeOK, FramesAreRetries
  <2> QED
    BY <2>2, <2>3, <2>4, <2>5
<1>5. CASE RetransmitRefused(w) \/ GiveUp(w)
  <2>1. "send_failed" \in Settled /\ "timeout" \in Settled
    BY DEF Settled
  <2> QED
    BY <1>1, <1>2, <1>3, <1>5, <2>1, SettleInv DEF RetransmitRefused, GiveUp
<1>6. CASE ExtendWait(w)
  <2> USE <1>1, <1>6 DEF Inv, ExtendWait
  <2>1. TypeOK'
    BY CommandAssumption DEF TypeOK, CountWait
  <2>2. HandlesWhileRunning' /\ RunningCanEnd' /\ OneSendPending'
    BY DEF HandlesWhileRunning, RunningCanEnd, OneSendPending
  <2>3. LockNeverLeaks' /\ FramesAreRetries'
    BY DEF LockNeverLeaks, FramesAreRetries
  <2> QED
    BY <2>1, <2>2, <2>3
<1> QED
  BY <1>2, <1>4, <1>5, <1>6 DEF TimeoutExpires

LEMMA DeliverAckInv ==
  ASSUME Inv, NEW result \in Results, DeliverAck(result)
  PROVE  Inv'
<1>1. /\ UNCHANGED <<sending, active, teardowns, written>>
      /\ received' \subseteq Workflows
      /\ acks' \subseteq Results
      /\ acksSent' \in 0..MaxAcks
  BY CommandAssumption DEF DeliverAck, Inv, TypeOK
<1>2. Listening \in SUBSET Workflows /\ \A w \in Listening : phase[w] \in Running
  BY DEF Listening, Inv, HandlesWhileRunning
<1>3. CASE Settle(Listening, "accepted") \/ Settle(Listening, "rejected")
  <2>1. "accepted" \in Settled /\ "rejected" \in Settled
    BY DEF Settled
  <2> QED
    BY <1>1, <1>2, <1>3, <2>1, SettleInv
<1>4. CASE /\ phase' = Set(phase, Listening, "in_progress")
           /\ waits' = Set(waits, Listening, 0)
           /\ timer' = Set(timer, Listening, TRUE)
           /\ UNCHANGED <<retries, subscribed, locked, lockOwner>>
  <2> USE <1>1, <1>2, <1>4 DEF Inv, Set
  <2>1. TypeOK'
    <3>1. phase' \in [Workflows -> {"idle"} \cup Running \cup Settled]
      BY DEF TypeOK, Running
    <3>2. waits' \in [Workflows -> 0..MaxRetries]
      BY CommandAssumption DEF TypeOK
    <3>3. timer' \in [Workflows -> BOOLEAN]
      BY DEF TypeOK
    <3> QED
      BY <3>1, <3>2, <3>3 DEF TypeOK
  <2>2. HandlesWhileRunning' /\ RunningCanEnd' /\ OneSendPending'
    BY DEF TypeOK, HandlesWhileRunning, RunningCanEnd, OneSendPending, Running
  <2>3. LockNeverLeaks'
    BY DEF LockNeverLeaks
  <2>4. FramesAreRetries'
    <3> SUFFICES ASSUME NEW v \in Workflows
                 PROVE  written'[v] + (IF sending'[v] THEN 1 ELSE 0)
                          <= IF phase'[v] = "idle" THEN 0 ELSE retries'[v] + 1
      BY DEF FramesAreRetries
    <3>1. phase'[v] = "idle" <=> phase[v] = "idle"
      BY DEF Running
    <3> QED
      BY <3>1 DEF FramesAreRetries
  <2> QED
    BY <2>1, <2>2, <2>3, <2>4
<1> QED
  BY <1>3, <1>4 DEF DeliverAck, OnAck

LEMMA DeactivateInv ==
  ASSUME Inv, Deactivate
  PROVE  Inv'
<1> DEFINE rejected == {w \in Workflows : sending[w]}
           ws == {w \in rejected : phase[w] \in Running}
<1> USE DEF Inv
<1>a. ws \in SUBSET Workflows /\ "send_failed" \in Settled
  BY DEF Settled
<1>b. TookDown(ws, "send_failed")
  BY <1>a, TakeDownType DEF Deactivate
<1>c. \A w \in Workflows : w \notin ws /\ phase[w] \in Running => ~sending[w]
  OBVIOUS
<1>d. /\ sending' = [w \in Workflows |-> FALSE]
      /\ lockOwner' = Free
      /\ active' = FALSE
      /\ teardowns < MaxTeardowns /\ teardowns' = teardowns + 1
  BY DEF Deactivate
<1>0. /\ written' \in [Workflows -> Nat]
      /\ received' \subseteq Workflows
      /\ \A v \in Workflows : written'[v] <= written[v] + (IF sending[v] THEN 1 ELSE 0)
      /\ UNCHANGED <<acks, acksSent>>
  <2> PICK inFlight \in SUBSET rejected : FrameOut(inFlight)
    BY DEF Deactivate
  <2>1. inFlight \in SUBSET Workflows /\ \A v \in inFlight : sending[v]
    OBVIOUS
  <2>2. /\ written' \in [Workflows -> Nat]
        /\ received' \subseteq Workflows
        /\ \A v \in Workflows : written'[v] = written[v] + (IF v \in inFlight THEN 1 ELSE 0)
        /\ UNCHANGED <<acks, acksSent>>
    BY <2>1, FrameOutType
  <2>3. ASSUME NEW v \in Workflows
        PROVE  written'[v] <= written[v] + (IF sending[v] THEN 1 ELSE 0)
    <3>1. written[v] \in Nat
      BY DEF TypeOK
    <3> QED
      BY <2>1, <2>2, <3>1
  <2> QED
    BY <2>2, <2>3
<1> HIDE DEF ws, rejected
<1>1. TypeOK'
  <2>1. teardowns' \in 0..MaxTeardowns
    BY <1>d, CommandAssumption DEF TypeOK
  <2>2. sending' \in [Workflows -> BOOLEAN]
    BY <1>d
  <2> QED
    BY <1>0, <1>b, <1>d, <2>1, <2>2 DEF TypeOK, TookDown
<1>2. HandlesWhileRunning'
  BY <1>b DEF HandlesWhileRunning, TookDown
<1>3. RunningCanEnd'
  BY <1>b, <1>c DEF RunningCanEnd, TookDown
<1>4. OneSendPending'
  BY <1>d DEF OneSendPending
<1>5. LockNeverLeaks'
  BY <1>d DEF LockNeverLeaks
<1>6. FramesAreRetries'
  <2> SUFFICES ASSUME NEW v \in Workflows
               PROVE  written'[v] + (IF sending'[v] THEN 1 ELSE 0)
                        <= IF phase'[v] = "idle" THEN 0 ELSE retries'[v] + 1
    BY DEF FramesAreRetries
  <2>1. v \in ws => phase[v] # "idle"
    BY DEF ws, Running
  <2>2. phase'[v] = "idle" <=> phase[v] = "idle"
    BY <1>b, <2>1 DEF TookDown
  <2>3. written'[v] \in Nat /\ written[v] \in Nat /\ retries[v] \in Nat
    BY <1>0, CommandAssumption DEF TypeOK
  <2>4. ~sending'[v] /\ retries'[v] = retries[v]
    BY <1>b, <1>d DEF TookDown
  <2> QED
    BY <1>0, <2>2, <2>3, <2>4 DEF FramesAreRetries
<1> QED
  BY <1>1, <1>2, <1>3, <1>4, <1>5, <1>6

\* The steps of the link, the vehicle and reactivate() leave workflows alone.
LEMMA EnvironmentInv ==
  ASSUME Inv,
         \/ \E result \in Results : LoseAck(result) \/ VehicleAcks(result)
         \/ Reactivate
         \/ UNCHANGED vars
  PROVE  Inv'
<1>1. UNCHANGED <<workflowVars, lockOwner, teardowns, written, received>>
  BY DEF LoseAck, VehicleAcks, Reactivate, linkVars, vars
<1>2. active' \in BOOLEAN /\ acks' \subseteq Results /\ acksSent' \in 0..MaxAcks
  <2>1. active \in BOOLEAN /\ acks \subseteq Results /\ acksSent \in 0..MaxAcks
    BY DEF Inv, TypeOK
  <2>2. CASE \E result \in Results : LoseAck(result)
    BY <2>1, <2>2 DEF LoseAck
  <2>3. CASE \E result \in Results : VehicleAcks(result)
    BY <2>1, <2>3, CommandAssumption DEF VehicleAcks
  <2>4. CASE Reactivate \/ UNCHANGED vars
    BY <2>1, <2>4 DEF Reactivate, linkVars, vars
  <2> QED
    BY <2>2, <2>3, <2>4
<1> QED
  BY <1>1, <1>2 DEF Inv, TypeOK, HandlesWhileRunning, LockNeverLeaks, RunningCanEnd,
     OneSendPending, FramesAreRetries, workflowVars

LEMMA NextInv == Inv /\ [Next]_vars => Inv'
<1> SUFFICES ASSUME Inv, [Next]_vars
             PROVE  Inv'
  OBVIOUS
<1>1. ASSUME NEW w \in Workflows,
             Run(w) \/ Abort(w) \/ SendResolves(w) \/ SendRejects(w) \/ TimeoutExpires(w)
      PROVE  Inv'
  BY <1>1, RunInv, AbortInv, SendResolvesInv, SendRejectsInv, TimeoutExpiresInv
<1>2. ASSUME NEW result \in Results, DeliverAck(result)
      PROVE  Inv'
  BY <1>2, DeliverAckInv
<1>3. CASE Deactivate
  BY <1>3, DeactivateInv
<1> QED
  BY <1>1, <1>2, <1>3, EnvironmentInv DEF Next

-----------------------------------------------------------------------------
(* Theorems *)

\* The inductive invariant holds in every reachable state.
THEOREM Invariance == Spec => []Inv
  BY InitInv, NextInv, PTL DEF Spec

\* Every variable keeps its type; the retry and wait counters stay within
\* maxRetries.
THEOREM TypeCorrectness == Spec => []TypeOK
<1>1. Inv => TypeOK
  BY DEF Inv
<1> QED
  BY <1>1, Invariance, PTL

\* A workflow that settled, on whatever path, leaves nothing of itself behind.
THEOREM Inertness == Spec => []SettledIsInert
<1>1. Inv => SettledIsInert
  BY DEF Inv, HandlesWhileRunning, SettledIsInert
<1> QED
  BY <1>1, Invariance, PTL

\* No waiting workflow is without a pending send or an armed timer.
THEOREM NeverStuck == Spec => []RunningCanEnd
<1>1. Inv => RunningCanEnd
  BY DEF Inv
<1> QED
  BY <1>1, Invariance, PTL

\* The vehicle never sees more than maxRetries + 1 frames of one command.
THEOREM TransmissionsBounded == Spec => []BoundedTransmissions
<1>1. Inv => BoundedTransmissions
  <2> SUFFICES ASSUME Inv, NEW w \in Workflows
               PROVE  written[w] + (IF sending[w] THEN 1 ELSE 0) <= MaxRetries + 1
    BY DEF BoundedTransmissions
  <2>1. written[w] \in Nat /\ retries[w] \in 0..MaxRetries
    BY DEF Inv, TypeOK
  <2>2. written[w] + (IF sending[w] THEN 1 ELSE 0) <= IF phase[w] = "idle" THEN 0 ELSE retries[w] + 1
    BY DEF Inv, FramesAreRetries
  <2> QED
    BY <2>1, <2>2, CommandAssumption
<1> QED
  BY <1>1, Invariance, PTL

\* COMMAND_BUSY is reported only while an identical command is running.
THEOREM BusyTruthful == Spec => BusyIsTruthful
<1> DEFINE Truthful ==
      \A w \in Workflows : phase[w] = "idle" /\ phase'[w] = "busy"
        => \E v \in Workflows : phase[v] \in Running
<1>1. Inv /\ [Next]_vars => [Truthful]_vars
  <2> SUFFICES ASSUME Inv, Next, NEW w \in Workflows, phase[w] = "idle", phase'[w] = "busy"
               PROVE  \E v \in Workflows : phase[v] \in Running
    OBVIOUS
  <2>0. TypeOK /\ HandlesWhileRunning /\ LockNeverLeaks
    BY DEF Inv
  <2>1. ASSUME NEW u \in Workflows, Run(u)
        PROVE  lockOwner # Free
    BY <2>0, <2>1 DEF Run, Refused, Started, StartedInactive, MayAcquire, TypeOK
  <2>2. ASSUME NEW ws \in SUBSET Workflows, NEW how \in Settled, TakeDown(ws, how),
               \A u \in ws : phase[u] \in Running
        PROVE  FALSE
    <3>1. TookDown(ws, how)
      BY <2>0, <2>2, TakeDownType
    <3>2. w \notin ws
      BY <2>2 DEF Running
    <3> QED
      BY <3>1, <3>2 DEF TookDown
  <2>3. "aborted" \in Settled /\ "send_failed" \in Settled /\ "timeout" \in Settled
         /\ "accepted" \in Settled /\ "rejected" \in Settled
    BY DEF Settled
  <2>4. ASSUME NEW u \in Workflows, Abort(u)
        PROVE  FALSE
    BY <2>2, <2>3, <2>4 DEF Abort, Settle
  <2>5. ASSUME NEW u \in Workflows, SendResolves(u)
        PROVE  FALSE
    BY <2>5 DEF SendResolves
  <2>6. ASSUME NEW u \in Workflows, SendRejects(u)
        PROVE  FALSE
    <3>1. {u} \cap {v \in Workflows : phase[v] \in Running} \in SUBSET Workflows
      OBVIOUS
    <3> QED
      BY <2>2, <2>3, <2>6, <3>1 DEF SendRejects, Settle
  <2>7. ASSUME NEW u \in Workflows, TimeoutExpires(u)
        PROVE  FALSE
    <3>1. phase[u] \in Running
      BY <2>0, <2>7 DEF HandlesWhileRunning, TimeoutExpires
    <3>2. CASE Retransmit(u) \/ ExtendWait(u)
      BY <2>0, <3>1, <3>2 DEF Retransmit, ExtendWait, TypeOK, Running
    <3>3. CASE RetransmitRefused(u) \/ GiveUp(u)
      BY <2>2, <2>3, <3>1, <3>3 DEF RetransmitRefused, GiveUp, Settle
    <3> QED
      BY <2>7, <3>1, <3>2, <3>3 DEF TimeoutExpires
  <2>8. ASSUME NEW result \in Results, DeliverAck(result)
        PROVE  FALSE
    <3>1. Listening \in SUBSET Workflows /\ \A u \in Listening : phase[u] \in Running
      BY <2>0 DEF Listening, HandlesWhileRunning
    <3>2. CASE Settle(Listening, "accepted") \/ Settle(Listening, "rejected")
      BY <2>2, <2>3, <3>1, <3>2 DEF Settle
    <3>3. CASE phase' = Set(phase, Listening, "in_progress")
      BY <3>3 DEF Set
    <3> QED
      BY <2>8, <3>2, <3>3 DEF DeliverAck, OnAck
  <2>9. ASSUME Deactivate
        PROVE  FALSE
    <3> DEFINE ws == {v \in {u \in Workflows : sending[u]} : phase[v] \in Running}
    <3>1. ws \in SUBSET Workflows /\ \A u \in ws : phase[u] \in Running
      OBVIOUS
    <3>2. TakeDown(ws, "send_failed")
      BY <2>9 DEF Deactivate
    <3> QED
      BY <2>2, <2>3, <3>1, <3>2
  <2>10. ASSUME (\E result \in Results : LoseAck(result) \/ VehicleAcks(result)) \/ Reactivate
         PROVE  FALSE
    BY <2>10 DEF LoseAck, VehicleAcks, Reactivate, workflowVars
  <2>11. lockOwner # Free
    <3>1. CASE \E u \in Workflows :
                 Run(u) \/ Abort(u) \/ SendResolves(u) \/ SendRejects(u) \/ TimeoutExpires(u)
      BY <3>1, <2>1, <2>4, <2>5, <2>6, <2>7
    <3>2. CASE \E result \in Results : DeliverAck(result)
      BY <3>2, <2>8
    <3> QED
      BY <3>1, <3>2, <2>9, <2>10 DEF Next
  <2> QED
    BY <2>0, <2>11 DEF LockNeverLeaks, HandlesWhileRunning
<1> QED
  BY <1>1, Invariance, PTL DEF Spec, BusyIsTruthful

-----------------------------------------------------------------------------
(* Mutual exclusion *)

\* As long as no teardown has dropped the locks, whoever has a handle holds the
\* key, and there is only one handle.
HandleHoldsKey ==
  teardowns = 0 =>
    /\ \A w \in Workflows : locked[w] => lockOwner = Owner
    /\ \A v, w \in Workflows : locked[v] /\ locked[w] => v = w

LEMMA SettleHolds ==
  ASSUME Inv, HandleHoldsKey, NEW ws \in SUBSET Workflows, NEW how \in Settled,
         Settle(ws, how), \A w \in ws : phase[w] \in Running, UNCHANGED teardowns
  PROVE  HandleHoldsKey'
<1>1. TypeOK /\ HandlesWhileRunning
  BY DEF Inv
<1>2. TookDown(ws, how)
  BY <1>1, TakeDownType DEF Settle
<1>3. \A w \in Workflows : locked'[w] => w \notin ws /\ locked[w]
  BY <1>2 DEF TookDown
<1>4. CASE ws = {}
  <2>1. lockOwner' = lockOwner
    BY <1>4 DEF Settle
  <2> QED
    BY <1>3, <2>1 DEF HandleHoldsKey
<1>5. CASE ws # {}
  <2>1. PICK u \in ws : locked[u]
    BY <1>1, <1>5 DEF HandlesWhileRunning
  <2>2. teardowns = 0 => \A w \in Workflows : ~locked'[w]
    BY <1>3, <2>1 DEF HandleHoldsKey
  <2> QED
    BY <2>2 DEF HandleHoldsKey
<1> QED
  BY <1>4, <1>5

LEMMA HoldsStep == Inv /\ HandleHoldsKey /\ [Next]_vars => HandleHoldsKey'
<1> SUFFICES ASSUME Inv, HandleHoldsKey, [Next]_vars
             PROVE  HandleHoldsKey'
  OBVIOUS
<1>0. TypeOK /\ HandlesWhileRunning
  BY DEF Inv
<1>a. /\ "aborted" \in Settled /\ "send_failed" \in Settled /\ "timeout" \in Settled
      /\ "accepted" \in Settled /\ "rejected" \in Settled
  BY DEF Settled
<1>1. ASSUME NEW w \in Workflows, Run(w)
      PROVE  HandleHoldsKey'
  <2>1. UNCHANGED teardowns
    BY <1>1 DEF Run
  <2>2. CASE Refused(w)
    BY <2>1, <2>2 DEF Refused, HandleHoldsKey
  <2>3. CASE Started(w) \/ StartedInactive(w)
    <3>1. lockOwner = Free
      BY <2>3 DEF Started, StartedInactive, MayAcquire
    <3>2. teardowns = 0 => \A v \in Workflows : ~locked[v]
      BY <3>1 DEF HandleHoldsKey, Free, Owner
    <3>3. CASE Started(w)
      BY <1>0, <2>1, <3>2, <3>3 DEF Started, HandleHoldsKey, TypeOK
    <3>4. CASE StartedInactive(w)
      BY <2>1, <3>2, <3>4 DEF StartedInactive, HandleHoldsKey
    <3> QED
      BY <2>3, <3>3, <3>4
  <2> QED
    BY <1>1, <2>2, <2>3 DEF Run
<1>2. ASSUME NEW w \in Workflows, Abort(w)
      PROVE  HandleHoldsKey'
  BY <1>2, <1>a, SettleHolds DEF Abort
<1>3. ASSUME NEW w \in Workflows, SendResolves(w)
      PROVE  HandleHoldsKey'
  BY <1>3 DEF SendResolves, HandleHoldsKey
<1>4. ASSUME NEW w \in Workflows, SendRejects(w)
      PROVE  HandleHoldsKey'
  <2>1. {w} \cap {v \in Workflows : phase[v] \in Running} \in SUBSET Workflows
    OBVIOUS
  <2> QED
    BY <1>4, <1>a, <2>1, SettleHolds DEF SendRejects
<1>5. ASSUME NEW w \in Workflows, TimeoutExpires(w)
      PROVE  HandleHoldsKey'
  <2>1. phase[w] \in Running /\ UNCHANGED teardowns
    BY <1>0, <1>5 DEF HandlesWhileRunning, TimeoutExpires
  <2>2. CASE Retransmit(w) \/ ExtendWait(w)
    BY <2>1, <2>2 DEF Retransmit, ExtendWait, HandleHoldsKey
  <2>3. CASE RetransmitRefused(w) \/ GiveUp(w)
    BY <2>1, <2>3, <1>a, SettleHolds DEF RetransmitRefused, GiveUp
  <2> QED
    BY <1>5, <2>1, <2>2, <2>3 DEF TimeoutExpires
<1>6. ASSUME NEW result \in Results, DeliverAck(result)
      PROVE  HandleHoldsKey'
  <2>1. Listening \in SUBSET Workflows /\ \A u \in Listening : phase[u] \in Running
    BY <1>0 DEF Listening, HandlesWhileRunning
  <2>2. UNCHANGED teardowns
    BY <1>6 DEF DeliverAck
  <2>3. CASE Settle(Listening, "accepted") \/ Settle(Listening, "rejected")
    BY <2>1, <2>2, <2>3, <1>a, SettleHolds
  <2>4. CASE UNCHANGED <<locked, lockOwner>>
    BY <2>2, <2>4 DEF HandleHoldsKey
  <2> QED
    BY <1>6, <2>3, <2>4 DEF DeliverAck, OnAck
<1>7. ASSUME Deactivate
      PROVE  HandleHoldsKey'
  BY <1>0, <1>7, CommandAssumption DEF Deactivate, HandleHoldsKey, TypeOK
<1>8. ASSUME \/ \E result \in Results : LoseAck(result) \/ VehicleAcks(result)
             \/ Reactivate
             \/ UNCHANGED vars
      PROVE  HandleHoldsKey'
  BY <1>8 DEF LoseAck, VehicleAcks, Reactivate, vars, workflowVars, HandleHoldsKey
<1>9. CASE \E w \in Workflows :
             Run(w) \/ Abort(w) \/ SendResolves(w) \/ SendRejects(w) \/ TimeoutExpires(w)
  BY <1>9, <1>1, <1>2, <1>3, <1>4, <1>5
<1> QED
  BY <1>6, <1>7, <1>8, <1>9 DEF Next

\* Two identical commands never wait for acknowledgements at the same time,
\* until a teardown of the connection drops the locks of running workflows.
THEOREM LockExcludes == Spec => []OneAtATimeUntilTeardown
<1>1. Init => HandleHoldsKey
  BY DEF Init, HandleHoldsKey
<1>2. Inv /\ HandleHoldsKey => OneAtATimeUntilTeardown
  BY DEF Inv, HandlesWhileRunning, HandleHoldsKey, OneAtATime, OneAtATimeUntilTeardown
<1> QED
  BY <1>1, <1>2, HoldsStep, Invariance, PTL DEF Spec

\* Once a workflow has seen IN_PROGRESS it issues no further send.
THEOREM ProgressEndsSending == Spec => NoResendAfterProgress
<1> DEFINE Quiet == \A w \in Workflows : phase[w] = "in_progress" /\ ~sending[w] => ~sending'[w]
<1>1. Inv /\ [Next]_vars => [Quiet]_vars
  <2> SUFFICES ASSUME TypeOK, Next, NEW w \in Workflows, phase[w] = "in_progress", ~sending[w]
               PROVE  ~sending'[w]
    BY DEF Inv
  <2>1. ASSUME NEW u \in Workflows, Run(u)
        PROVE  ~sending'[w]
    BY <2>1 DEF Run, Refused, Started, StartedInactive, TypeOK
  <2>2. ASSUME NEW u \in Workflows, SendResolves(u) \/ SendRejects(u)
        PROVE  ~sending'[w]
    BY <2>2 DEF SendResolves, SendRejects, TypeOK
  <2>3. ASSUME NEW u \in Workflows, TimeoutExpires(u)
        PROVE  ~sending'[w]
    <3>1. CASE Retransmit(u)
      BY <3>1 DEF Retransmit, Retransmits, TypeOK
    <3>2. CASE UNCHANGED sending
      BY <3>2
    <3> QED
      BY <2>3, <3>1, <3>2
      DEF TimeoutExpires, RetransmitRefused, ExtendWait, GiveUp, TimeoutIgnored
  <2>4. CASE Deactivate
    BY <2>4 DEF Deactivate
  <2>5. CASE UNCHANGED sending
    BY <2>5
  <2>6. (\E u \in Workflows : Abort(u)) => UNCHANGED sending
    BY DEF Abort
  <2>7. (\E result \in Results : DeliverAck(result) \/ LoseAck(result) \/ VehicleAcks(result))
           \/ Reactivate => UNCHANGED sending
    BY DEF DeliverAck, LoseAck, VehicleAcks, Reactivate, workflowVars
  <2> QED
    BY <2>1, <2>2, <2>3, <2>4, <2>5, <2>6, <2>7 DEF Next
<1> QED
  BY <1>1, Invariance, PTL DEF Spec, NoResendAfterProgress
=============================================================================
