-------------------------- MODULE TransfersProofs --------------------------
(***************************************************************************)
(* What a transfer reports is true, for any number of items or parameters, *)
(* any retry budget and any number of replies.                             *)
(***************************************************************************)
EXTENDS Transfers, FiniteSetTheorems, TLAPS

-----------------------------------------------------------------------------
(* Clearing a mission *)

\* Without leftovers of an earlier transfer, an acceptance under way is the
\* answer of a vehicle that has cleared its mission.
ClearInv ==
  kind = "clear" /\ ~leftover =>
    /\ outcome = "complete" => cleared
    /\ Clear!Accepted \in replies => cleared

\* The workflow begins with nothing heard, stored or counted.
LEMMA ClearInit == Init => ClearInv
  BY DEF Init, Blank, ClearInv, Clear!Init, Clear!BaseInit, Clear!Accepted

\* Every step keeps an acceptance the trace of a mission cleared.
LEMMA ClearStep == ASSUME ClearInv, [Next]_vars PROVE ClearInv'
<1> USE DEF ClearInv
<1>1. CASE UNCHANGED vars
  BY <1>1 DEF vars, baseVars, ownVars
<1>2. CASE Next
  <2> SUFFICES ASSUME kind = "clear", Clear!Next PROVE ClearInv'
    BY <1>2 DEF Next
  <2> USE DEF Clear!ItsVars, Clear!Settle, Clear!Running
  <2>1. CASE Clear!ClearSent \/ Clear!ClearFails \/ Clear!Retry
    BY <2>1 DEF Clear!ClearSent, Clear!FrameOut, Clear!ClearFails, Clear!SendFails, Clear!Retry, Clear!RetryDue
  <2>2. CASE Clear!OnAck(Clear!Accepted)
    BY <2>2 DEF Clear!OnAck, Clear!Arrives, Clear!Verdict
  <2>3. CASE Clear!OnAck(Clear!Rejected)
    <3>1. Clear!Verdict(Clear!Rejected) = "failed"
      BY DEF Clear!Verdict, Clear!Accepted, Clear!Rejected, Clear!Message
    <3> QED BY <2>3, <3>1 DEF Clear!OnAck, Clear!Arrives
  <2>4. CASE Clear!VehicleAnswers
    BY <2>4 DEF Clear!VehicleAnswers, Clear!Answers, Clear!AnswersAll, Clear!Accepted, Clear!Rejected, Clear!Message
  <2>5. CASE (Clear!AbortWorkflow \/ Clear!RetriesExhausted("failed") \/ Clear!TimeoutIgnored) /\ UNCHANGED Clear!ItsVars
    BY <2>5 DEF Clear!AbortWorkflow, Clear!RetriesExhausted, Clear!TimeoutIgnored
  <2> QED BY <2>1, <2>2, <2>3, <2>4, <2>5 DEF Clear!Next
<1> QED BY <1>1, <1>2

-----------------------------------------------------------------------------
(* Setting a parameter *)

\* The requested value is shown, stored and confirmed only after the vehicle
\* has stored it once.
SetInv ==
  kind = "set" =>
    /\ stored \in {0, 1}
    /\ stored = 1 => landed
    /\ Set!Value(1) \in replies => landed
    /\ outcome = "complete" => landed

\* The workflow begins with nothing heard, stored or counted.
LEMMA SetInit == Init => SetInv
  BY DEF Init, Blank, SetInv, Set!Init, Set!BaseInit

\* Every step keeps the requested value on the link the trace of one that landed.
LEMMA SetStep == ASSUME SetInv, [Next]_vars PROVE SetInv'
<1> USE DEF SetInv
<1>1. CASE UNCHANGED vars
  BY <1>1 DEF vars, baseVars, ownVars
<1>2. CASE Next
  <2> SUFFICES ASSUME kind = "set", Set!Next, UNCHANGED kind PROVE SetInv'
    BY <1>2 DEF Next
  <2> USE DEF Set!ItsVars, Set!Settle, Set!Running
  <2>0. \A v : Set!Value(v) = Set!Value(1) <=> v = 1
    BY DEF Set!Value, Set!Message
  <2>1. CASE Set!RequestSent \/ Set!RequestFails \/ Set!Retry
    BY <2>1 DEF Set!RequestSent, Set!FrameOut, Set!RequestFails, Set!SendFails, Set!Retry, Set!RetryDue
  <2>2. ASSUME NEW v \in {0, 1}, Set!OnRead(v) PROVE SetInv'
    BY <2>2 DEF Set!OnRead, Set!Arrives
  <2>3. ASSUME NEW v \in {0, 1}, Set!OnEcho(v) PROVE SetInv'
    BY <2>3 DEF Set!OnEcho, Set!Arrives, Set!Confirms
  <2>4. CASE Set!VehicleAnswers
    BY <2>0, <2>4 DEF Set!VehicleAnswers, Set!Answers, Set!AnswersAll
  <2>5. CASE Set!VehicleNotifies
    BY <2>0, <2>5 DEF Set!VehicleNotifies
  <2>6. CASE Set!Exhausted \/ ((Set!AbortWorkflow \/ Set!TimeoutIgnored) /\ UNCHANGED Set!ItsVars)
    BY <2>6 DEF Set!Exhausted, Set!RetriesExhausted, Set!AbortWorkflow, Set!TimeoutIgnored
  <2> QED BY <2>1, <2>2, <2>3, <2>4, <2>5, <2>6 DEF Set!Next
<1> QED BY <1>1, <1>2

-----------------------------------------------------------------------------
(* Listing the parameters *)

\* Only indices of the vehicle's parameters are counted.
ListInv ==
  kind = "list" =>
    /\ received \subseteq List!Indices
    /\ outcome = "complete" => received = List!Indices

\* There are as many indices as parameters.
LEMMA IndicesCounted == IsFiniteSet(List!Indices) /\ Cardinality(List!Indices) = Count
<1>1. 0 \in Int /\ Count - 1 \in Int
  BY MissionAssumption
<1>2. /\ IsFiniteSet(0..(Count - 1))
      /\ Cardinality(0..(Count - 1)) = IF 0 > Count - 1 THEN 0 ELSE (Count - 1) - 0 + 1
  BY <1>1, FS_Interval
<1> QED BY <1>2, MissionAssumption DEF List!Indices

\* The workflow's own instance of the library counts as the library does.
LEMMA SameCardinality == ASSUME NEW S PROVE List!Cardinality(S) = Cardinality(S)
  BY DEF List!Cardinality, Cardinality

\* As many different indices as there are parameters are all of them.
LEMMA AllIndices ==
  ASSUME NEW S \in SUBSET List!Indices, Cardinality(S) >= Count
  PROVE  S = List!Indices
<1>1. IsFiniteSet(List!Indices) /\ Cardinality(List!Indices) = Count
  BY IndicesCounted
<1>2. IsFiniteSet(S) /\ Cardinality(S) \in Nat
  BY <1>1, FS_Subset, FS_CardinalityType
<1>3. Cardinality(S) <= Cardinality(List!Indices)
  BY <1>1, FS_Subset
<1> QED BY <1>1, <1>2, <1>3, FS_Subset, MissionAssumption

\* The workflow begins with nothing heard, stored or counted.
LEMMA ListInit == Init => ListInv
  BY DEF Init, Blank, ListInv, List!Init, List!BaseInit

\* Every step counts only indices of parameters.
LEMMA ListStep == ASSUME ListInv, [Next]_vars PROVE ListInv'
<1> USE DEF ListInv
<1>1. CASE UNCHANGED vars
  BY <1>1 DEF vars, baseVars, ownVars
<1>2. CASE Next
  <2> SUFFICES ASSUME kind = "list", List!Next, UNCHANGED kind PROVE ListInv'
    BY <1>2 DEF Next
  <2> USE DEF List!ItsVars, List!Settle, List!Running
  <2>1. CASE List!RequestSent \/ List!RequestFails \/ List!Retry
    BY <2>1 DEF List!RequestSent, List!FrameOut, List!RequestFails, List!SendFails, List!Retry, List!RetryDue
  <2>2. ASSUME NEW index \in List!Indices \cup {NoIndex}, List!OnValue(index) PROVE ListInv'
    <3>1. outcome = "running"
      BY <2>2 DEF List!OnValue, List!Arrives
    <3> HIDE DEF List!Settle
    <3>2. CASE List!IsListed(index)
      <4>1. received' = received \cup {index} /\ index \in List!Indices
        BY <2>2, <3>2 DEF List!OnValue, List!IsListed
      <4>2. Cardinality(received') >= Count \/ outcome' = outcome
        BY <2>2, <3>2, <4>1, SameCardinality DEF List!OnValue
      <4> QED BY <3>1, <4>1, <4>2, AllIndices DEF List!Indices
    <3>3. CASE ~List!IsListed(index)
      BY <2>2, <3>3 DEF List!OnValue
    <3> QED BY <3>2, <3>3
  <2>3. CASE List!VehicleAnswers \/ List!VehicleNotifies
    BY <2>3 DEF List!VehicleAnswers, List!VehicleNotifies, List!Answers, List!AnswersAll
  <2>4. CASE (List!AbortWorkflow \/ List!RetriesExhausted("failed") \/ List!TimeoutIgnored) /\ UNCHANGED List!ItsVars
    BY <2>4 DEF List!AbortWorkflow, List!RetriesExhausted, List!TimeoutIgnored
  <2> QED BY <2>1, <2>2, <2>3, <2>4 DEF List!Next
<1> QED BY <1>1, <1>2

-----------------------------------------------------------------------------
(* Uploading a mission *)

\* What the workflow sends: the count and the mission's items.
UpMessages == {Up!CountMsg} \cup {Up!Item(seq) : seq \in 0..(Count - 1)}

\* While the upload runs: the vehicle has been sent nothing else, it asks only
\* for what it lacks next, for what it has, or for what does not exist, so the
\* highest item asked for bounds what it holds from below; and an acceptance
\* that is not left over means that it holds everything.
UpRunning ==
  /\ sends \in Seq(UpMessages)
  /\ heard \subseteq UpMessages
  /\ timer = NoTimer \/ timer \in UpMessages
  /\ maxSeqSent \in Int /\ maxSeqSent <= holds /\ maxSeqSent < Count
  /\ \A seq \in Nat : Up!Request(seq) \in replies => seq = Count \/ (seq <= holds /\ seq < Count)
  /\ Up!Accepted \in replies /\ ~leftover => holds = Count

UpInv ==
  kind = "upload" =>
    /\ holds \in Nat /\ holds <= Count
    /\ outcome = "running" => UpRunning
    /\ outcome = "complete" => holds >= Count - 1 /\ (~leftover => holds = Count)

\* The larger of two sequence numbers.
LEMMA LargerOfTwo ==
  ASSUME NEW a \in Int, NEW b \in Int
  PROVE  Up!Max({a, b}) = IF a >= b THEN a ELSE b
<1> DEFINE m == IF a >= b THEN a ELSE b
<1>1. m \in {a, b} /\ \A y \in {a, b} : m >= y
  OBVIOUS
<1>2. \A x \in {a, b} : (\A y \in {a, b} : x >= y) => x = m
  OBVIOUS
<1> QED BY <1>1, <1>2 DEF Up!Max

\* The workflow begins with nothing heard, stored or counted.
LEMMA UpInit == Init => UpInv
<1> SUFFICES ASSUME Init, kind = "upload" PROVE UpInv
  BY DEF UpInv
<1>1. /\ sends = <<Up!CountMsg>> /\ heard = {} /\ timer = Up!NoTimer /\ outcome = "running"
      /\ maxSeqSent = -1 /\ holds = 0 /\ replies \in {{}, {Up!Accepted}} /\ leftover = (replies # {})
  BY DEF Init, Up!Init, Up!BaseInit
<1>2. sends \in Seq(UpMessages) /\ timer = NoTimer
  BY <1>1 DEF UpMessages, NoTimer, Up!NoTimer, Up!Message, Message
<1>3. \A seq : Up!Request(seq) # Up!Accepted
  BY DEF Up!Request, Up!Accepted, Up!Message
<1>4. maxSeqSent \in Int /\ maxSeqSent <= holds /\ maxSeqSent < Count /\ holds \in Nat /\ holds <= Count
  BY <1>1, MissionAssumption
<1>5. UpRunning
  BY <1>1, <1>2, <1>3, <1>4 DEF UpRunning
<1> QED BY <1>1, <1>4, <1>5 DEF UpInv

\* The frames of a running upload, and what the vehicle heard, stay messages of
\* the upload when the oldest one goes out.
LEMMA UpFrameOut ==
  ASSUME UpRunning, Up!FrameOut
  PROVE  /\ Head(sends) \in UpMessages
         /\ sends' \in Seq(UpMessages)
         /\ heard' \subseteq UpMessages
<1>1. sends # <<>> /\ sends \in Seq(UpMessages) /\ heard \subseteq UpMessages
  BY DEF Up!FrameOut, UpRunning
<1>2. Head(sends) \in UpMessages /\ Tail(sends) \in Seq(UpMessages)
  BY <1>1
<1>3. sends' = Tail(sends) /\ (heard' = heard \cup {Head(sends)} \/ heard' = heard)
  BY DEF Up!FrameOut
<1> QED BY <1>1, <1>2, <1>3

\* A message of the upload that is the vehicle's next item is one it lacks.
LEMMA NextItemIsLacking ==
  ASSUME NEW m \in UpMessages, NEW n \in Nat, m = Up!Item(n)
  PROVE  n < Count
<1>1. Up!CountMsg # Up!Item(n)
  BY DEF Up!CountMsg, Up!Item, Up!Message
<1>2. PICK seq \in 0..(Count - 1) : m = Up!Item(seq)
  BY <1>1 DEF UpMessages
<1>3. seq = n
  BY <1>2 DEF Up!Item, Up!Message
<1> QED BY <1>2, <1>3, MissionAssumption

\* A request for an item makes it the highest one asked for, or fails the upload.
LEMMA UpOnRequest ==
  ASSUME UpInv, kind = "upload", NEW seq \in 0..Count, Up!OnRequest(seq), UNCHANGED kind
  PROVE  UpInv'
<1>1. outcome = "running" /\ Up!Request(seq) \in replies /\ replies' \subseteq replies /\ UNCHANGED <<holds, heard, leftover>>
  BY DEF Up!OnRequest, Up!Arrives, Up!Running
<1>2. UpRunning /\ holds \in Nat /\ holds <= Count /\ seq \in Nat
  BY <1>1 DEF UpInv
<1>3. CASE outcome' = "failed"
  BY <1>1, <1>2, <1>3 DEF UpInv
<1>4. CASE outcome' # "failed"
  <2>1. seq < Count
    BY <1>1, <1>2, <1>4, MissionAssumption DEF Up!OnRequest, Up!Settle, Up!Running
  <2>2. /\ maxSeqSent' = Up!Max({maxSeqSent, seq}) /\ timer' = Up!NoTimer
        /\ sends' = Append(sends, Up!Item(seq)) /\ UNCHANGED outcome
    BY <1>1, <1>2, <1>4, <2>1, MissionAssumption DEF Up!OnRequest, Up!Settle, Up!Running, Up!Send
  <2>3. seq <= holds
    BY <1>1, <1>2, <2>1, MissionAssumption DEF UpRunning
  <2>4. maxSeqSent' \in Int /\ maxSeqSent' <= holds /\ maxSeqSent' < Count
    BY <1>2, <2>1, <2>2, <2>3, LargerOfTwo DEF UpRunning
  <2>5. Up!Item(seq) \in UpMessages
    BY <1>2, <2>1, MissionAssumption DEF UpMessages
  <2>6. sends' \in Seq(UpMessages)
    BY <1>2, <2>2, <2>5 DEF UpRunning
  <2>7. timer' = NoTimer
    BY <2>2 DEF NoTimer, Up!NoTimer, Message, Up!Message
  <2>8. UpRunning'
    BY <1>1, <1>2, <2>4, <2>6, <2>7 DEF UpRunning, UpMessages
  <2> QED BY <1>1, <1>2, <2>2, <2>8 DEF UpInv
<1> QED BY <1>3, <1>4

\* An acknowledgement is believed after the last item was asked for.
LEMMA UpOnAck ==
  ASSUME UpInv, kind = "upload", NEW ack \in {Up!Accepted, Up!Rejected}, Up!OnAck(ack), UNCHANGED kind
  PROVE  UpInv'
<1>1. /\ outcome = "running" /\ ack \in replies /\ replies' \subseteq replies
      /\ UNCHANGED <<sends, heard, holds, maxSeqSent, leftover>>
  BY DEF Up!OnAck, Up!Arrives, Up!Running, Up!ItsVars
<1>2. UpRunning /\ holds \in Nat /\ holds <= Count
  BY <1>1 DEF UpInv
<1>3. CASE outcome' = outcome /\ timer' = timer
  <2>1. UpRunning'
    BY <1>1, <1>2, <1>3 DEF UpRunning, UpMessages
  <2> QED BY <1>1, <1>2, <1>3, <2>1 DEF UpInv
<1>4. CASE ack = Up!Accepted /\ Up!HonoursAck /\ outcome' = "complete"
  <2>1. holds >= Count - 1
    BY <1>2, <1>4, MissionAssumption DEF UpRunning, Up!HonoursAck
  <2>2. ~leftover => holds = Count
    BY <1>1, <1>2, <1>4 DEF UpRunning
  <2> QED BY <1>1, <1>2, <1>4, <2>1, <2>2 DEF UpInv
<1>5. CASE outcome' = "failed"
  BY <1>1, <1>2, <1>5 DEF UpInv
<1> QED BY <1>1, <1>3, <1>4, <1>5 DEF Up!OnAck, Up!Settle, Up!Running, Up!Verdict

\* The vehicle takes the next item and asks for one it lacks.
LEMMA UpVehicleAnswers ==
  ASSUME UpInv, kind = "upload", Up!VehicleAnswers, UNCHANGED kind
  PROVE  UpInv'
<1>1. PICK m \in heard :
        /\ holds' = Up!HoldsAfter(m)
        /\ \/ holds' < Count /\ Up!Answers(m, Up!Request(holds'))
           \/ holds' = Count /\ Up!Answers(m, Up!Accepted)
           \/ Up!Answers(m, Up!Rejected)
           \/ Up!Answers(m, Up!Request(Count))
  BY DEF Up!VehicleAnswers
<1>2. /\ outcome = "running" /\ UNCHANGED <<outcome, sends, timer, maxSeqSent, leftover>>
      /\ heard' \subseteq heard
  BY <1>1 DEF Up!VehicleAnswers, Up!Answers, Up!AnswersAll, Up!Running
<1>3. UpRunning /\ holds \in Nat /\ holds <= Count /\ m \in UpMessages
  BY <1>1, <1>2 DEF UpInv, UpRunning
<1>4. holds' \in Nat /\ holds <= holds' /\ holds' <= Count /\ (holds = Count => holds' = Count)
  <2>1. CASE m = Up!Item(holds)
    BY <1>1, <1>3, <2>1, NextItemIsLacking, MissionAssumption DEF Up!HoldsAfter
  <2>2. CASE m # Up!Item(holds)
    BY <1>1, <1>3, <2>2 DEF Up!HoldsAfter
  <2> QED BY <2>1, <2>2
<1>5. \A a, b : Up!Request(a) = Up!Request(b) => a = b
  BY DEF Up!Request, Up!Message
<1>6. \A a : Up!Request(a) # Up!Accepted /\ Up!Request(a) # Up!Rejected /\ Up!Accepted # Up!Rejected
  BY DEF Up!Request, Up!Accepted, Up!Rejected, Up!Message
<1>7. PICK r : /\ replies' = replies \cup {r}
               /\ \/ r = Up!Request(holds') /\ holds' < Count
                  \/ r = Up!Accepted /\ holds' = Count
                  \/ r = Up!Rejected
                  \/ r = Up!Request(Count)
  BY <1>1 DEF Up!Answers, Up!AnswersAll
<1>8. \A seq \in Nat : Up!Request(seq) \in replies' => seq = Count \/ (seq <= holds' /\ seq < Count)
  <2> SUFFICES ASSUME NEW seq \in Nat, Up!Request(seq) \in replies'
               PROVE  seq = Count \/ (seq <= holds' /\ seq < Count)
    OBVIOUS
  <2>1. CASE Up!Request(seq) \in replies
    BY <1>3, <1>4, <2>1 DEF UpRunning
  <2>2. CASE Up!Request(seq) = r
    BY <1>4, <1>5, <1>6, <1>7, <2>2
  <2> QED BY <1>7, <2>1, <2>2
<1>9. Up!Accepted \in replies' /\ ~leftover => holds' = Count
  BY <1>3, <1>4, <1>6, <1>7 DEF UpRunning
<1>10. maxSeqSent \in Int /\ maxSeqSent <= holds' /\ maxSeqSent < Count
  BY <1>3, <1>4, MissionAssumption DEF UpRunning
<1>11. UpRunning'
  BY <1>2, <1>3, <1>8, <1>9, <1>10 DEF UpRunning, UpMessages
<1> QED BY <1>2, <1>4, <1>11 DEF UpInv

\* Every step keeps the upload in step with the vehicle.
LEMMA UpStep == ASSUME UpInv, [Next]_vars PROVE UpInv'
<1>1. CASE UNCHANGED vars
  BY <1>1 DEF vars, baseVars, ownVars, UpInv, UpRunning, UpMessages
<1>2. CASE Next
  <2> SUFFICES ASSUME kind = "upload", Up!Next, UNCHANGED kind PROVE UpInv'
    BY <1>2 DEF Next, UpInv
  <2>1. CASE Up!FrameSent
    <3>1. /\ UNCHANGED <<outcome, holds, maxSeqSent, leftover, replies>>
          /\ Up!FrameOut /\ timer' = Head(sends)
      BY <2>1 DEF Up!FrameSent, Up!FrameOut, Up!ItsVars
    <3>2. UpRunning => UpRunning'
      BY <3>1, UpFrameOut DEF UpRunning, UpMessages
    <3> QED BY <3>1, <3>2 DEF UpInv
  <2>2. CASE Up!FrameFails
    <3>1. UNCHANGED <<holds, leftover>> /\ outcome' = IF outcome = "running" THEN "failed" ELSE outcome
      BY <2>2 DEF Up!FrameFails, Up!Settle, Up!Running, Up!ItsVars
    <3> QED BY <3>1 DEF UpInv
  <2>3. CASE Up!Retry
    <3>1. /\ outcome = "running" /\ timer # Up!NoTimer /\ timer' = Up!NoTimer /\ sends' = Append(sends, timer)
          /\ UNCHANGED <<outcome, holds, maxSeqSent, leftover, replies, heard>>
      BY <2>3 DEF Up!Retry, Up!RetryDue, Up!Running, Up!Send, Up!ItsVars
    <3>2. Up!NoTimer = NoTimer
      BY DEF Up!NoTimer, NoTimer, Up!Message, Message
    <3>3. UpRunning /\ sends' \in Seq(UpMessages)
      BY <3>1, <3>2 DEF UpInv, UpRunning
    <3>4. UpRunning'
      BY <3>1, <3>2, <3>3 DEF UpRunning, UpMessages
    <3> QED BY <3>1, <3>4 DEF UpInv
  <2>4. ASSUME NEW seq \in 0..Count, Up!OnRequest(seq) PROVE UpInv'
    BY <2>4, UpOnRequest
  <2>5. CASE Up!OnAck(Up!Accepted) \/ Up!OnAck(Up!Rejected)
    BY <2>5, UpOnAck
  <2>6. CASE Up!VehicleAnswers
    BY <2>6, UpVehicleAnswers
  <2>7. CASE Up!VehicleAsksAgain
    <3>1. PICK seq \in 0..(holds - 1) : replies' = replies \cup {Up!Request(seq)}
      BY <2>7 DEF Up!VehicleAsksAgain
    <3>2. /\ outcome = "running"
          /\ UNCHANGED <<outcome, sends, timer, heard, holds, maxSeqSent, leftover>>
      BY <2>7 DEF Up!VehicleAsksAgain, Up!Running, Up!ItsVars
    <3>3. UpRunning /\ holds \in Nat /\ holds <= Count
      BY <3>2 DEF UpInv
    <3>4. \A a : (Up!Request(a) = Up!Request(seq) => a = seq) /\ Up!Request(a) # Up!Accepted
      BY DEF Up!Request, Up!Accepted, Up!Message
    <3>5. \A a \in Nat : Up!Request(a) \in replies' => a = Count \/ (a <= holds /\ a < Count)
      BY <3>1, <3>3, <3>4, MissionAssumption DEF UpRunning
    <3>6. Up!Accepted \in replies' => Up!Accepted \in replies
      BY <3>1, <3>4
    <3>7. UpRunning'
      BY <3>2, <3>3, <3>5, <3>6 DEF UpRunning, UpMessages
    <3> QED BY <3>2, <3>3, <3>7 DEF UpInv
  <2>8. CASE Up!AbortWorkflow /\ UNCHANGED Up!ItsVars
    BY <2>8 DEF Up!AbortWorkflow, Up!Settle, Up!Running, Up!ItsVars, UpInv
  <2>9. CASE Up!RetriesExhausted("failed") /\ UNCHANGED Up!ItsVars
    BY <2>9 DEF Up!RetriesExhausted, Up!Settle, Up!Running, Up!ItsVars, UpInv
  <2>10. CASE Up!TimeoutIgnored /\ UNCHANGED Up!ItsVars
    BY <2>10 DEF Up!TimeoutIgnored, Up!Running, Up!ItsVars, UpInv
  <2> QED BY <2>1, <2>2, <2>3, <2>4, <2>5, <2>6, <2>7, <2>8, <2>9, <2>10 DEF Up!Next
<1> QED BY <1>1, <1>2

-----------------------------------------------------------------------------
(* Downloading a mission *)

\* The first n items of a mission, in order.
FirstItems(n) == [i \in 1..n |-> i - 1]

DownMessages == {Down!RequestList, Down!Ack} \cup {Down!Request(seq) : seq \in 0..(Count - 1)}

\* The message whose answer the download waits for.
Awaited ==
  IF state = "waiting_count" THEN Down!RequestList
  ELSE IF state = "waiting_item" THEN Down!Request(expectedSeq)
  ELSE Down!Ack

\* What is stored is what the workflow has moved past.
DownProgress ==
  \/ state = "waiting_count" /\ expectedSeq = 0 /\ items = FirstItems(0)
  \/ /\ state = "waiting_item" /\ count = Count
     /\ expectedSeq \in 0..(Count - 1) /\ items = FirstItems(expectedSeq)
  \/ state = "sending_ack" /\ expectedSeq \in Nat /\ items = FirstItems(Count)

\* The latest send is the one the workflow waits for an answer to; when every
\* send has settled, so is the one its timeout would repeat.  This is what a
\* late send breaks: it arms the timeout with a request that has been answered.
LatestIsAwaited ==
  /\ sends # <<>> => sends[Len(sends)] = Awaited
  /\ sends = <<>> => state # "sending_ack" /\ (timer = NoTimer \/ timer = Awaited)

DownRunning ==
  /\ sends \in Seq(DownMessages)
  /\ DownProgress
  /\ LatestIsAwaited
  /\ \A i \in DOMAIN sends : sends[i] = Down!Ack => state = "sending_ack"

DownInv ==
  kind = "download" /\ prompt =>
    /\ outcome = "running" => DownRunning
    /\ outcome = "complete" => items = FirstItems(Count)

\* The messages of a download are told apart.
LEMMA DownMessagesDiffer ==
  /\ Down!RequestList # Down!Ack
  /\ \A seq : Down!Request(seq) # Down!RequestList /\ Down!Request(seq) # Down!Ack
  /\ \A seq : Down!Request(seq).seq = seq
  /\ Down!NoTimer = NoTimer
  BY DEF Down!RequestList, Down!Ack, Down!Request, Down!Message, Down!NoTimer, NoTimer, Message

\* The item after the first n makes n + 1.
LEMMA FirstItemsGrow ==
  ASSUME NEW n \in Nat
  PROVE  Append(FirstItems(n), n) = FirstItems(n + 1)
  BY DEF FirstItems

\* The workflow begins with nothing heard, stored or counted.
LEMMA DownInit == Init => DownInv
<1> SUFFICES ASSUME Init, kind = "download" PROVE DownInv
  BY DEF DownInv
<1>1. /\ sends = <<Down!RequestList>> /\ outcome = "running" /\ state = "waiting_count"
      /\ expectedSeq = 0 /\ items = <<>>
  BY DEF Init, Down!Init, Down!BaseInit
<1>2. items = FirstItems(0)
  BY <1>1 DEF FirstItems
<1>3. sends \in Seq(DownMessages)
  BY <1>1 DEF DownMessages
<1>4. LatestIsAwaited
  BY <1>1 DEF LatestIsAwaited, Awaited
<1>5. \A i \in DOMAIN sends : sends[i] # Down!Ack
  BY <1>1, DownMessagesDiffer
<1> QED BY <1>1, <1>2, <1>3, <1>4, <1>5 DEF DownInv, DownRunning, DownProgress

\* Sending the message that is now waited for keeps the latest send the awaited one.
LEMMA DownSends ==
  ASSUME DownRunning, NEW m \in DownMessages, sends' = Append(sends, m), m = Awaited',
         m = Down!Ack => state' = "sending_ack", state # "sending_ack"
  PROVE  /\ sends' \in Seq(DownMessages)
         /\ LatestIsAwaited'
         /\ \A i \in DOMAIN sends' : sends'[i] = Down!Ack => state' = "sending_ack"
<1>1. sends \in Seq(DownMessages) /\ \A i \in DOMAIN sends : sends[i] # Down!Ack
  BY DEF DownRunning
<1>2. /\ sends' \in Seq(DownMessages) /\ sends' # <<>> /\ sends'[Len(sends')] = m
      /\ \A i \in DOMAIN sends' : sends'[i] = m \/ (i \in DOMAIN sends /\ sends'[i] = sends[i])
  BY <1>1
<1>3. LatestIsAwaited'
  BY <1>2 DEF LatestIsAwaited
<1> QED BY <1>1, <1>2, <1>3

\* A sequence that its head leaves empty ends with its head.
LEMMA LastIsHead ==
  ASSUME NEW S, NEW s \in Seq(S), s # <<>>, Tail(s) = <<>>
  PROVE  Head(s) = s[Len(s)]
<1>1. Len(s) \in Nat /\ Len(s) # 0 /\ Len(Tail(s)) = Len(s) - 1
  OBVIOUS
<1>2. Len(Tail(s)) = 0
  <2>1. Len(<<>>) = 0
    OBVIOUS
  <2> QED BY <2>1, Zenon
<1>3. Len(s) = 1
  BY <1>1, <1>2
<1> QED BY <1>3

\* The write of a request is done: what its timeout may repeat is awaited.
LEMMA DownRequestSent ==
  ASSUME DownRunning, Down!RequestSent
  PROVE  DownRunning'
<1>1. /\ sends # <<>> /\ sends' = Tail(sends) /\ timer' = Head(sends) /\ Head(sends) # Down!Ack
      /\ UNCHANGED <<state, count, expectedSeq, items>>
  BY DEF Down!RequestSent, Down!FrameOut
<1>2. sends \in Seq(DownMessages) /\ sends[Len(sends)] = Awaited /\ DownProgress
  BY <1>1 DEF DownRunning, LatestIsAwaited
<1>3. /\ sends' \in Seq(DownMessages) /\ Len(sends') = Len(sends) - 1
      /\ \A i \in 1..Len(sends') : sends'[i] = sends[i + 1]
  BY <1>1, <1>2
<1>4. CASE sends' = <<>>
  <2>1. timer' = Awaited
    <3>1. Head(sends) = sends[Len(sends)]
      BY <1>1, <1>2, <1>4, LastIsHead
    <3> QED BY <1>1, <1>2, <3>1
  <2>2. state # "sending_ack"
    BY <1>1, <2>1 DEF Awaited
  <2> QED BY <1>1, <1>3, <1>2, <1>4, <2>1, <2>2 DEF DownRunning, DownProgress, LatestIsAwaited, Awaited
<1>5. CASE sends' # <<>>
  <2>1. sends'[Len(sends')] = sends[Len(sends)]
    BY <1>1, <1>2, <1>5
  <2>2. LatestIsAwaited'
    BY <1>1, <1>2, <1>5, <2>1 DEF LatestIsAwaited, Awaited
  <2>3. DownProgress'
    BY <1>1, <1>2 DEF DownProgress
  <2>4. \A i \in DOMAIN sends' : sends'[i] = Down!Ack => state' = "sending_ack"
    <3>1. \A i \in DOMAIN sends' : i + 1 \in DOMAIN sends /\ sends'[i] = sends[i + 1]
      BY <1>2, <1>3
    <3> QED BY <1>1, <3>1 DEF DownRunning
  <2> QED BY <1>3, <2>2, <2>3, <2>4 DEF DownRunning
<1> QED BY <1>4, <1>5

\* A timeout that expires when every send has settled repeats what is awaited.
LEMMA DownRetry ==
  ASSUME DownRunning, prompt, Down!Retry
  PROVE  DownRunning'
<1>1. /\ sends = <<>> /\ timer # NoTimer /\ sends' = Append(sends, timer)
      /\ UNCHANGED <<count, items>>
      /\ IF timer = Down!RequestList
           THEN state' = "waiting_count" /\ UNCHANGED expectedSeq
           ELSE state' = "waiting_item" /\ expectedSeq' = timer.seq
  BY DownMessagesDiffer DEF Down!Retry, Down!RetryDue, Down!Repeat, Down!Send
<1>2. timer = Awaited /\ state # "sending_ack" /\ DownProgress
  BY <1>1 DEF DownRunning, LatestIsAwaited
<1>3. UNCHANGED <<state, expectedSeq>>
  BY <1>1, <1>2, DownMessagesDiffer DEF DownProgress, Awaited
<1>4. Awaited' = timer /\ DownProgress'
  BY <1>1, <1>2, <1>3 DEF Awaited, DownProgress
<1>5. timer \in DownMessages /\ timer # Down!Ack
  BY <1>2, DownMessagesDiffer DEF DownProgress, Awaited, DownMessages
<1> QED BY <1>1, <1>2, <1>4, <1>5, DownSends DEF DownRunning

\* The count moves a download that waits for it on to the first item.
LEMMA DownOnCount ==
  ASSUME DownRunning, Down!OnCount
  PROVE  DownRunning'
<1>1. CASE state = "waiting_count"
  <2>1. items = FirstItems(0) /\ UNCHANGED items /\ count' = Count /\ expectedSeq = 0
    BY <1>1 DEF DownRunning, DownProgress, Down!OnCount
  <2>2. CASE Count = 0
    <3>1. state' = "sending_ack" /\ sends' = Append(sends, Down!Ack) /\ UNCHANGED expectedSeq
      BY <1>1, <2>2 DEF Down!OnCount, Down!Finish, Down!Send
    <3>2. DownProgress'
      BY <2>1, <2>2, <3>1 DEF DownProgress
    <3>3. Awaited' = Down!Ack /\ Down!Ack \in DownMessages
      BY <3>1 DEF Awaited, DownMessages
    <3> QED BY <1>1, <3>1, <3>2, <3>3, DownSends DEF DownRunning
  <2>3. CASE Count # 0
    <3>1. state' = "waiting_item" /\ expectedSeq' = 0 /\ sends' = Append(sends, Down!Request(0))
      BY <1>1, <2>3, DownMessagesDiffer DEF Down!OnCount, Down!Repeat, Down!Send
    <3>2. 0 \in 0..(Count - 1)
      BY <2>3, MissionAssumption
    <3>3. DownProgress'
      BY <2>1, <3>1, <3>2 DEF DownProgress
    <3>4. Awaited' = Down!Request(0) /\ Down!Request(0) \in DownMessages
      BY <3>1, <3>2 DEF Awaited, DownMessages
    <3> QED BY <1>1, <3>1, <3>3, <3>4, DownSends, DownMessagesDiffer DEF DownRunning
  <2> QED BY <2>2, <2>3
<1>2. CASE state # "waiting_count"
  BY <1>2 DEF Down!OnCount, DownRunning, DownProgress, LatestIsAwaited, Awaited
<1> QED BY <1>1, <1>2

\* The expected item is stored; any other one changes nothing.
LEMMA DownOnItem ==
  ASSUME DownRunning, NEW seq \in 0..(Count - 1), Down!OnItem(seq)
  PROVE  DownRunning'
<1>1. CASE Down!Takes(seq)
  <2>1. state = "waiting_item" /\ seq = expectedSeq /\ count = Count /\ items = FirstItems(seq) /\ seq \in Nat
    BY <1>1, MissionAssumption DEF Down!Takes, DownRunning, DownProgress
  <2>2. items' = FirstItems(seq + 1) /\ UNCHANGED count
    BY <1>1, <2>1, FirstItemsGrow DEF Down!OnItem
  <2>3. CASE seq + 1 >= Count
    <3>1. state' = "sending_ack" /\ sends' = Append(sends, Down!Ack) /\ UNCHANGED expectedSeq
      BY <1>1, <2>1, <2>3 DEF Down!OnItem, Down!Finish, Down!Send
    <3>2. seq + 1 = Count
      BY <2>3, MissionAssumption
    <3>3. DownProgress'
      BY <2>1, <2>2, <3>1, <3>2 DEF DownProgress
    <3>4. Awaited' = Down!Ack /\ Down!Ack \in DownMessages
      BY <3>1 DEF Awaited, DownMessages
    <3> QED BY <2>1, <3>1, <3>3, <3>4, DownSends DEF DownRunning
  <2>4. CASE ~(seq + 1 >= Count)
    <3>1. /\ state' = "waiting_item" /\ expectedSeq' = seq + 1
          /\ sends' = Append(sends, Down!Request(seq + 1))
      BY <1>1, <2>1, <2>4, DownMessagesDiffer DEF Down!OnItem, Down!Repeat, Down!Send
    <3>2. seq + 1 \in 0..(Count - 1)
      BY <2>1, <2>4, MissionAssumption
    <3>3. DownProgress'
      BY <2>1, <2>2, <3>1, <3>2 DEF DownProgress
    <3>4. Awaited' = Down!Request(seq + 1) /\ Down!Request(seq + 1) \in DownMessages
      BY <3>1, <3>2 DEF Awaited, DownMessages
    <3> QED BY <2>1, <3>1, <3>3, <3>4, DownSends, DownMessagesDiffer DEF DownRunning
  <2> QED BY <2>3, <2>4
<1>2. CASE ~Down!Takes(seq)
  BY <1>2 DEF Down!OnItem, DownRunning, DownProgress, LatestIsAwaited, Awaited
<1> QED BY <1>1, <1>2

\* Every step keeps the download in step with its requests.
LEMMA DownStep == ASSUME DownInv, [Next]_vars PROVE DownInv'
<1>1. CASE UNCHANGED vars
  BY <1>1 DEF vars, baseVars, ownVars, DownInv, DownRunning, DownProgress, LatestIsAwaited, Awaited
<1>2. CASE Next
  <2> SUFFICES ASSUME kind = "download", prompt, Down!Next, UNCHANGED <<kind, prompt>> PROVE DownInv'
    BY <1>2 DEF Next, DownInv, Down!Next
  <2>1. CASE Down!RequestSent
    <3>1. UNCHANGED <<outcome, items>>
      BY <2>1 DEF Down!RequestSent
    <3> QED BY <2>1, <3>1, DownRequestSent DEF DownInv
  <2>2. CASE Down!AckSettles
    <3>1. UNCHANGED items /\ outcome' = IF outcome = "running" THEN "complete" ELSE outcome
      BY <2>2 DEF Down!AckSettles, Down!Settle, Down!Running
    <3>2. \E i \in DOMAIN sends : outcome = "running" => sends[i] = Down!Ack
      BY <2>2 DEF Down!AckSettles, Down!FrameOut, Down!SendFails, DownInv, DownRunning
    <3>3. outcome = "running" => items = FirstItems(Count)
      BY <3>2 DEF DownInv, DownRunning, DownProgress
    <3> QED BY <3>1, <3>3 DEF DownInv
  <2>3. CASE Down!RequestFails \/ Down!OnDenied \/ (Down!AbortWorkflow /\ UNCHANGED Down!ItsVars)
             \/ (Down!RetriesExhausted("failed") /\ UNCHANGED Down!ItsVars)
    <3>1. UNCHANGED items /\ outcome' = IF outcome = "running" THEN "failed" ELSE outcome
      BY <2>3 DEF Down!RequestFails, Down!OnDenied, Down!AbortWorkflow, Down!RetriesExhausted, Down!Settle,
                  Down!Running, Down!ItsVars
    <3> QED BY <3>1 DEF DownInv
  <2>4. CASE Down!Retry
    <3>1. outcome = "running" /\ UNCHANGED outcome
      BY <2>4 DEF Down!Retry, Down!RetryDue, Down!Running
    <3> QED BY <2>4, <3>1, DownRetry DEF DownInv
  <2>5. CASE Down!OnCount
    <3>1. outcome = "running" /\ UNCHANGED outcome
      BY <2>5 DEF Down!OnCount, Down!Arrives, Down!Running
    <3> QED BY <2>5, <3>1, DownOnCount DEF DownInv
  <2>6. ASSUME NEW seq \in 0..(Count - 1), Down!OnItem(seq) PROVE DownInv'
    <3>1. outcome = "running" /\ UNCHANGED outcome
      BY <2>6 DEF Down!OnItem, Down!Arrives, Down!Running
    <3> QED BY <2>6, <3>1, DownOnItem DEF DownInv
  <2>7. CASE Down!VehicleAnswers
    <3>1. UNCHANGED <<outcome, state, sends, timer, count, expectedSeq, items>>
      BY <2>7 DEF Down!VehicleAnswers, Down!Answers, Down!AnswersAll
    <3> QED BY <3>1 DEF DownInv, DownRunning, DownProgress, LatestIsAwaited, Awaited
  <2>8. CASE Down!TimeoutIgnored /\ UNCHANGED Down!ItsVars
    BY <2>8 DEF Down!TimeoutIgnored, Down!Running, Down!ItsVars, DownInv
  <2> QED BY <2>1, <2>2, <2>3, <2>4, <2>5, <2>6, <2>7, <2>8 DEF Down!Next
<1> QED BY <1>1, <1>2

-----------------------------------------------------------------------------
(* The reports are true *)

TransfersInv == DownInv /\ UpInv /\ ClearInv /\ ListInv /\ SetInv

\* Each workflow keeps its own invariant; the kind of a transfer never changes.
LEMMA TransfersInvariant == Spec => []TransfersInv
<1>1. Init => TransfersInv
  BY DownInit, UpInit, ClearInit, ListInit, SetInit DEF TransfersInv
<1>2. TransfersInv /\ [Next]_vars => TransfersInv'
  BY DownStep, UpStep, ClearStep, ListStep, SetStep DEF TransfersInv
<1> QED BY <1>1, <1>2, PTL DEF Spec

\* What the mission node reports of a download, an upload or a clear is what it
\* or the vehicle holds, whatever is lost, repeated, delayed or left over; a
\* download as long as writes are done before timeouts are over.
THEOREM MissionReportsTrue == Spec => []MissionReportsAreTrue
<1>1. DownInv => PromptDownloadIsMission
  BY DEF DownInv, PromptDownloadIsMission, DownloadIsMission, Down!DownloadIsMission, FirstItems
<1>2. UpInv => OnlyLastInDoubt /\ CompleteMeansHeld
  BY MissionAssumption DEF UpInv, OnlyLastInDoubt, CompleteMeansHeld, Up!OnlyLastInDoubt, Up!CompleteMeansHeld
<1>3. ClearInv => CompleteMeansCleared
  BY DEF ClearInv, CompleteMeansCleared, Clear!ClearMeansCleared
<1>4. TransfersInv => MissionReportsAreTrue
  BY <1>1, <1>2, <1>3 DEF TransfersInv, MissionReportsAreTrue
<1> QED BY <1>4, TransfersInvariant, PTL

\* What the parameter node reports is what the vehicle holds: a list has every
\* parameter, and an applied value was stored.
THEOREM ParameterReportsTrue == Spec => []ParameterReportsAreTrue
<1>1. TransfersInv => ParameterReportsAreTrue
  BY DEF TransfersInv, ListInv, SetInv, ParameterReportsAreTrue, ListIsComplete, AppliedMeansStored,
         List!ListIsComplete, Set!AppliedMeansStored
<1> QED BY <1>1, TransfersInvariant, PTL

-----------------------------------------------------------------------------
(* Nobody waits for nothing *)

\* What each workflow sends.
DownSent == {Down!RequestList, Down!Ack} \cup {Down!Request(seq) : seq \in Nat}
ClearSent == {Clear!ClearAll}
ListSent == {List!RequestList}
            \cup {List!Read(CHOOSE i \in S : \A j \in S : i <= j) : S \in SUBSET List!Indices}
SetSent == {Set!ReadMsg, Set!SetMsg}

\* A send is outstanding, or a timeout stands that repeats one of the messages.
Standing(messages, repeats) ==
  /\ sends \in Seq(messages)
  /\ timer \in repeats \cup {NoTimer}
  /\ sends = <<>> => timer \in repeats

\* The set does not wait for what is left of the read.
SetStands ==
  /\ state \in {"reading", "setting"}
  /\ state = "setting" =>
       /\ timer \in {NoTimer, Set!SetMsg}
       /\ timer = Set!SetMsg \/ (sends # <<>> /\ sends[Len(sends)] = Set!SetMsg)

StandInv ==
  outcome = "running" =>
    /\ kind = "download" => Standing(DownSent, DownSent)
    /\ kind = "upload" => Standing(UpMessages, UpMessages)
    /\ kind = "clear" => Standing(ClearSent, ClearSent)
    /\ kind = "list" => Standing(ListSent, {List!OnStall})
    /\ kind = "set" => Standing(SetSent, SetSent) /\ SetStands

\* No message of a workflow is the timeout that is not armed.
LEMMA SentIsNotNothing ==
  /\ NoTimer \notin DownSent /\ NoTimer \notin UpMessages /\ NoTimer \notin ClearSent
  /\ NoTimer # List!OnStall /\ NoTimer \notin SetSent
  /\ Down!NoTimer = NoTimer /\ Up!NoTimer = NoTimer /\ Clear!NoTimer = NoTimer
  /\ List!NoTimer = NoTimer /\ Set!NoTimer = NoTimer
<1> USE DEF NoTimer, Message
<1>1. NoTimer \notin DownSent /\ Down!NoTimer = NoTimer
  BY DEF DownSent, Down!RequestList, Down!Ack, Down!Request, Down!Message, Down!NoTimer
<1>2. NoTimer \notin UpMessages /\ Up!NoTimer = NoTimer
  BY DEF UpMessages, Up!CountMsg, Up!Item, Up!Message, Up!NoTimer
<1>3. NoTimer \notin ClearSent /\ Clear!NoTimer = NoTimer
  BY DEF ClearSent, Clear!ClearAll, Clear!Message, Clear!NoTimer
<1>4. NoTimer # List!OnStall /\ List!NoTimer = NoTimer
  BY DEF List!OnStall, List!Message, List!NoTimer
<1>5. NoTimer \notin SetSent /\ Set!NoTimer = NoTimer
  BY DEF SetSent, Set!ReadMsg, Set!SetMsg, Set!Message, Set!NoTimer
<1> QED BY <1>1, <1>2, <1>3, <1>4, <1>5

\* The oldest frame goes out and its timeout is armed.
LEMMA FrameOutStands ==
  ASSUME NEW M, NEW R, Standing(M, R), sends # <<>>, sends' = Tail(sends), timer' \in R
  PROVE  Standing(M, R)'
<1>1. sends' \in Seq(M)
  BY DEF Standing
<1> QED BY <1>1 DEF Standing

\* A message is sent.
LEMMA SendStands ==
  ASSUME NEW M, NEW R, Standing(M, R), NEW m \in M, sends' = Append(sends, m),
         timer' \in R \cup {NoTimer}
  PROVE  Standing(M, R)'
<1>1. sends' \in Seq(M) /\ sends' # <<>>
  BY DEF Standing
<1> QED BY <1>1 DEF Standing

\* A run begins with its first message.
LEMMA FirstStands ==
  ASSUME NEW M, NEW R, NEW m \in M, sends = <<m>>, timer = NoTimer
  PROVE  Standing(M, R)
  BY DEF Standing

\* Every workflow begins with a message sent.
LEMMA StandInit == Init => StandInv
<1> SUFFICES ASSUME Init PROVE StandInv
  OBVIOUS
<1>1. CASE kind = "download"
  <2>1. sends = <<Down!RequestList>> /\ timer = NoTimer
    BY <1>1, SentIsNotNothing DEF Init, Down!Init, Down!BaseInit
  <2>2. Standing(DownSent, DownSent)
    BY <2>1, FirstStands DEF DownSent
  <2> QED BY <1>1, <2>2 DEF StandInv
<1>2. CASE kind = "upload"
  <2>1. sends = <<Up!CountMsg>> /\ timer = NoTimer
    BY <1>2, SentIsNotNothing DEF Init, Up!Init, Up!BaseInit
  <2>2. Standing(UpMessages, UpMessages)
    BY <2>1, FirstStands DEF UpMessages
  <2> QED BY <1>2, <2>2 DEF StandInv
<1>3. CASE kind = "clear"
  <2>1. sends = <<Clear!ClearAll>> /\ timer = NoTimer
    BY <1>3, SentIsNotNothing DEF Init, Clear!Init, Clear!BaseInit
  <2>2. Standing(ClearSent, ClearSent)
    BY <2>1, FirstStands DEF ClearSent
  <2> QED BY <1>3, <2>2 DEF StandInv
<1>4. CASE kind = "list"
  <2>1. sends = <<List!RequestList>> /\ timer = NoTimer
    BY <1>4, SentIsNotNothing DEF Init, List!Init, List!BaseInit
  <2>2. Standing(ListSent, {List!OnStall})
    BY <2>1, FirstStands DEF ListSent
  <2> QED BY <1>4, <2>2 DEF StandInv
<1>5. CASE kind = "set"
  <2>1. /\ timer = NoTimer
        /\ \/ sends = <<Set!ReadMsg>> /\ state = "reading"
           \/ sends = <<Set!SetMsg>> /\ state = "setting"
    BY <1>5, SentIsNotNothing DEF Init, Set!Init, Set!BaseInit
  <2>2. Standing(SetSent, SetSent)
    BY <2>1, FirstStands DEF SetSent
  <2>3. SetStands
    BY <2>1 DEF SetStands
  <2> QED BY <1>5, <2>2, <2>3 DEF StandInv
<1> QED BY <1>1, <1>2, <1>3, <1>4, <1>5 DEF Init

\* The steps of a download keep it waiting for something.
LEMMA DownStands ==
  ASSUME outcome = "running", outcome' = "running", Standing(DownSent, DownSent), Down!Next
  PROVE  Standing(DownSent, DownSent)'
<1> USE DEF Down!Settle, Down!Running
<1>0. Down!Ack \in DownSent /\ \A seq \in Nat : Down!Request(seq) \in DownSent
  BY DEF DownSent
<1>1. CASE Down!RequestSent
  <2>1. sends # <<>> /\ sends' = Tail(sends) /\ timer' = Head(sends)
    BY <1>1 DEF Down!RequestSent, Down!FrameOut
  <2>2. Head(sends) \in DownSent
    BY <2>1 DEF Standing
  <2> QED BY <2>1, <2>2, FrameOutStands
<1>2. CASE Down!AckSettles \/ Down!RequestFails
  BY <1>2 DEF Down!AckSettles, Down!RequestFails
<1>3. CASE Down!Retry
  <2>1. timer # NoTimer /\ sends' = Append(sends, timer) /\ timer' = NoTimer
    BY <1>3, SentIsNotNothing DEF Down!Retry, Down!RetryDue, Down!Repeat, Down!Send
  <2>2. timer \in DownSent
    BY <2>1 DEF Standing
  <2> QED BY <2>1, <2>2, SendStands
<1>4. CASE Down!OnCount
  <2>1. CASE state = "waiting_count"
    <3>1. timer' = NoTimer
      BY <1>4, <2>1, SentIsNotNothing DEF Down!OnCount
    <3>2. sends' = Append(sends, Down!Ack) \/ sends' = Append(sends, Down!Request(0))
      BY <1>4, <2>1 DEF Down!OnCount, Down!Finish, Down!Repeat, Down!Send
    <3> QED BY <1>0, <3>1, <3>2, SendStands
  <2>2. CASE state # "waiting_count"
    BY <1>4, <2>2 DEF Down!OnCount, Standing
  <2> QED BY <2>1, <2>2
<1>5. ASSUME NEW seq \in 0..(Count - 1), Down!OnItem(seq) PROVE Standing(DownSent, DownSent)'
  <2>1. CASE Down!Takes(seq)
    <3>1. timer' = NoTimer
      BY <1>5, <2>1, SentIsNotNothing DEF Down!OnItem
    <3>2. sends' = Append(sends, Down!Ack) \/ sends' = Append(sends, Down!Request(seq + 1))
      BY <1>5, <2>1 DEF Down!OnItem, Down!Finish, Down!Repeat, Down!Send
    <3>3. seq + 1 \in Nat
      BY MissionAssumption
    <3> QED BY <1>0, <3>1, <3>2, <3>3, SendStands
  <2>2. CASE ~Down!Takes(seq)
    BY <1>5, <2>2 DEF Down!OnItem, Standing
  <2> QED BY <2>1, <2>2
<1>6. CASE Down!OnDenied \/ Down!AbortWorkflow \/ Down!RetriesExhausted("failed") \/ Down!TimeoutIgnored
  BY <1>6 DEF Down!OnDenied, Down!AbortWorkflow, Down!RetriesExhausted, Down!TimeoutIgnored
<1>7. CASE Down!VehicleAnswers
  <2>1. UNCHANGED <<sends, timer>>
    BY <1>7 DEF Down!VehicleAnswers, Down!Answers, Down!AnswersAll
  <2> QED BY <2>1 DEF Standing
<1> QED BY <1>1, <1>2, <1>3, <1>4, <1>5, <1>6, <1>7 DEF Down!Next

\* The steps of an upload keep it waiting for something.
LEMMA UpStands ==
  ASSUME outcome = "running", outcome' = "running", Standing(UpMessages, UpMessages), Up!Next
  PROVE  Standing(UpMessages, UpMessages)'
<1> USE DEF Up!Settle, Up!Running
<1>1. CASE Up!FrameSent
  <2>1. sends # <<>> /\ sends' = Tail(sends) /\ timer' = Head(sends)
    BY <1>1 DEF Up!FrameSent, Up!FrameOut
  <2>2. Head(sends) \in UpMessages
    BY <2>1 DEF Standing
  <2> QED BY <2>1, <2>2, FrameOutStands
<1>2. CASE Up!FrameFails
  BY <1>2 DEF Up!FrameFails
<1>3. CASE Up!Retry
  <2>1. timer # NoTimer /\ sends' = Append(sends, timer) /\ timer' = NoTimer
    BY <1>3, SentIsNotNothing DEF Up!Retry, Up!RetryDue, Up!Send
  <2>2. timer \in UpMessages
    BY <2>1 DEF Standing
  <2> QED BY <2>1, <2>2, SendStands
<1>4. ASSUME NEW seq \in 0..Count, Up!OnRequest(seq) PROVE Standing(UpMessages, UpMessages)'
  <2>1. ~(seq >= Count) /\ ~Up!Stalled /\ timer' = NoTimer /\ sends' = Append(sends, Up!Item(seq))
    BY <1>4, SentIsNotNothing DEF Up!OnRequest, Up!Send
  <2>2. Up!Item(seq) \in UpMessages
    BY <2>1, MissionAssumption DEF UpMessages
  <2> QED BY <2>1, <2>2, SendStands
<1>5. ASSUME NEW ack, Up!OnAck(ack) PROVE Standing(UpMessages, UpMessages)'
  <2>1. ack = Up!Accepted /\ ~Up!HonoursAck
    BY <1>5 DEF Up!OnAck, Up!Verdict
  <2>2. UNCHANGED <<sends, timer>>
    BY <1>5, <2>1 DEF Up!OnAck
  <2> QED BY <2>2 DEF Standing
<1>6. CASE Up!VehicleAnswers \/ Up!VehicleAsksAgain
  <2>1. UNCHANGED <<sends, timer>>
    BY <1>6 DEF Up!VehicleAnswers, Up!Answers, Up!AnswersAll, Up!VehicleAsksAgain
  <2> QED BY <2>1 DEF Standing
<1>7. CASE Up!AbortWorkflow \/ Up!RetriesExhausted("failed") \/ Up!TimeoutIgnored
  BY <1>7 DEF Up!AbortWorkflow, Up!RetriesExhausted, Up!TimeoutIgnored
<1> QED BY <1>1, <1>2, <1>3, <1>4, <1>5, <1>6, <1>7 DEF Up!Next

\* The steps of a clear keep it waiting for something.
LEMMA ClearStands ==
  ASSUME outcome = "running", outcome' = "running", Standing(ClearSent, ClearSent), Clear!Next
  PROVE  Standing(ClearSent, ClearSent)'
<1> USE DEF Clear!Settle, Clear!Running
<1>0. Clear!ClearAll \in ClearSent
  BY DEF ClearSent
<1>1. CASE Clear!ClearSent
  <2>1. sends # <<>> /\ sends' = Tail(sends) /\ timer' = Clear!ClearAll
    BY <1>1 DEF Clear!ClearSent, Clear!FrameOut
  <2> QED BY <1>0, <2>1, FrameOutStands
<1>2. CASE Clear!ClearFails
  BY <1>2 DEF Clear!ClearFails
<1>3. CASE Clear!Retry
  <2>1. sends' = Append(sends, Clear!ClearAll) /\ timer' = NoTimer
    BY <1>3, SentIsNotNothing DEF Clear!Retry, Clear!RetryDue, Clear!Send
  <2> QED BY <1>0, <2>1, SendStands
<1>4. ASSUME NEW ack, Clear!OnAck(ack) PROVE FALSE
  BY <1>4 DEF Clear!OnAck, Clear!Verdict
<1>5. CASE Clear!VehicleAnswers
  <2>1. UNCHANGED <<sends, timer>>
    BY <1>5 DEF Clear!VehicleAnswers, Clear!Answers, Clear!AnswersAll
  <2> QED BY <2>1 DEF Standing
<1>6. CASE Clear!AbortWorkflow \/ Clear!RetriesExhausted("failed") \/ Clear!TimeoutIgnored
  BY <1>6 DEF Clear!AbortWorkflow, Clear!RetriesExhausted, Clear!TimeoutIgnored
<1> QED BY <1>1, <1>2, <1>3, <1>4, <1>5, <1>6 DEF Clear!Next

\* The steps of a list keep it waiting for something.
LEMMA ListStands ==
  ASSUME outcome = "running", outcome' = "running", Standing(ListSent, {List!OnStall}), List!Next
  PROVE  Standing(ListSent, {List!OnStall})'
<1> USE DEF List!Settle, List!Running
<1>1. CASE List!RequestSent
  <2>1. sends # <<>> /\ sends' = Tail(sends) /\ timer' = List!OnStall
    BY <1>1 DEF List!RequestSent, List!FrameOut
  <2> QED BY <2>1, FrameOutStands
<1>2. CASE List!RequestFails
  BY <1>2 DEF List!RequestFails
<1>3. CASE List!Retry
  <2>1. /\ timer' = NoTimer
        /\ sends' = Append(sends, List!RequestList) \/ sends' = Append(sends, List!Read(List!FirstMissing))
    BY <1>3, SentIsNotNothing DEF List!Retry, List!RetryDue, List!Send
  <2>2. List!RequestList \in ListSent /\ List!Read(List!FirstMissing) \in ListSent
    BY DEF ListSent, List!FirstMissing
  <2> QED BY <2>1, <2>2, SendStands
<1>4. ASSUME NEW index, List!OnValue(index) PROVE Standing(ListSent, {List!OnStall})'
  <2>1. timer' = List!OnStall \/ timer' = timer
    BY <1>4 DEF List!OnValue
  <2>2. UNCHANGED sends
    BY <1>4 DEF List!OnValue
  <2> QED BY <2>1, <2>2 DEF Standing
<1>5. CASE List!VehicleAnswers \/ List!VehicleNotifies
  <2>1. UNCHANGED <<sends, timer>>
    BY <1>5 DEF List!VehicleAnswers, List!Answers, List!AnswersAll, List!VehicleNotifies
  <2> QED BY <2>1 DEF Standing
<1>6. CASE List!AbortWorkflow \/ List!RetriesExhausted("failed") \/ List!TimeoutIgnored
  BY <1>6 DEF List!AbortWorkflow, List!RetriesExhausted, List!TimeoutIgnored
<1> QED BY <1>1, <1>2, <1>3, <1>4, <1>5, <1>6 DEF List!Next

\* Removing an element other than the last leaves the last one where it was.
LEMMA RemovalKeepsLast ==
  ASSUME NEW M, NEW s \in Seq(M), NEW i \in DOMAIN s, i # Len(s)
  PROVE  /\ Set!RemoveAt(s, i) \in Seq(M) /\ Set!RemoveAt(s, i) # <<>>
         /\ Set!RemoveAt(s, i)[Len(Set!RemoveAt(s, i))] = s[Len(s)]
<1> DEFINE front == SubSeq(s, 1, i - 1)
           back == SubSeq(s, i + 1, Len(s))
<1>1. i \in 1..Len(s) /\ Len(s) \in Nat /\ i < Len(s)
  OBVIOUS
<1>2. front \in Seq(M) /\ Len(front) = i - 1
  BY <1>1
<1>3. back \in Seq(M) /\ Len(back) = Len(s) - i /\ back[Len(s) - i] = s[Len(s)]
  <2>1. Len(back) = Len(s) - i /\ DOMAIN back = 1..(Len(s) - i)
    BY <1>1
  <2>2. \A k \in 1..(Len(s) - i) : back[k] = s[i + k]
    BY <1>1
  <2>3. \A k \in 1..(Len(s) - i) : back[k] \in M
    BY <1>1, <2>2
  <2>4. back[Len(s) - i] = s[Len(s)]
    <3> HIDE DEF back
    <3>1. \A a, b \in Int : a < b => b - a \in 1..(b - a) /\ a + (b - a) = b
      OBVIOUS
    <3>2. i \in Int /\ Len(s) \in Int
      BY <1>1
    <3>3. Len(s) - i \in 1..(Len(s) - i) /\ i + (Len(s) - i) = Len(s)
      BY <1>1, <3>1, <3>2, Zenon
    <3> QED BY <2>2, <3>3
  <2>5. back \in Seq(M)
    BY <1>1
  <2> QED BY <2>1, <2>4, <2>5
<1>4. Set!RemoveAt(s, i) = front \o back
  BY DEF Set!RemoveAt
<1> HIDE DEF front, back
<1>5. front \o back \in Seq(M) /\ Len(front \o back) = Len(s) - 1
  BY <1>1, <1>2, <1>3
<1>6. (front \o back)[Len(s) - 1] = back[Len(s) - i]
  BY <1>1, <1>2, <1>3
<1> QED BY <1>1, <1>3, <1>4, <1>5, <1>6

\* The steps of a set keep it waiting for something, and not only for the read.
LEMMA SetStandsStep ==
  ASSUME outcome = "running", outcome' = "running", Standing(SetSent, SetSent), SetStands, Set!Next
  PROVE  Standing(SetSent, SetSent)' /\ SetStands'
<1> USE DEF Set!Settle, Set!Running
<1>0. SetSent = {Set!ReadMsg, Set!SetMsg} /\ sends \in Seq(SetSent)
  BY DEF SetSent, Standing
<1>1. CASE Set!RequestSent
  <2>1. /\ sends # <<>> /\ sends' = Tail(sends) /\ UNCHANGED state
        /\ timer' = IF Set!IsOfChild(Head(sends)) THEN Head(sends) ELSE timer
    BY <1>1 DEF Set!RequestSent, Set!FrameOut
  <2>2. Head(sends) \in SetSent
    BY <1>0, <2>1
  <2>3. CASE state = "reading"
    <3>1. timer' = Head(sends)
      BY <2>1, <2>3 DEF Set!IsOfChild
    <3> QED BY <2>1, <2>2, <2>3, <3>1, FrameOutStands DEF SetStands
  <2>4. CASE state = "setting"
    <3>1. timer' \in {NoTimer, Set!SetMsg}
      BY <2>1, <2>4 DEF SetStands, Set!IsOfChild
    <3>2. timer' = Set!SetMsg \/ (sends' # <<>> /\ sends'[Len(sends')] = Set!SetMsg)
      <4>1. CASE timer = Set!SetMsg
        BY <2>1, <2>4, <4>1 DEF Set!IsOfChild
      <4>2. CASE sends[Len(sends)] = Set!SetMsg /\ Tail(sends) = <<>>
        <5>1. Head(sends) = Set!SetMsg
          BY <1>0, <2>1, <4>2, LastIsHead
        <5> QED BY <2>1, <2>4, <5>1 DEF Set!IsOfChild
      <4>3. CASE sends[Len(sends)] = Set!SetMsg /\ Tail(sends) # <<>>
        <5>1. Tail(sends)[Len(Tail(sends))] = sends[Len(sends)]
          BY <1>0, <2>1, <4>3
        <5> QED BY <2>1, <4>3, <5>1
      <4> QED BY <2>4, <4>1, <4>2, <4>3 DEF SetStands
    <3>3. sends' \in Seq(SetSent)
      BY <1>0, <2>1
    <3> QED BY <1>0, <2>1, <2>4, <3>1, <3>2, <3>3 DEF SetStands, Standing
  <2> QED BY <2>3, <2>4 DEF SetStands
<1>2. CASE Set!RequestFails
  <2>1. PICK i \in DOMAIN sends :
          sends' = Set!RemoveAt(sends, i) /\ ~Set!IsOfChild(sends[i]) /\ UNCHANGED <<state, timer>>
    BY <1>2 DEF Set!RequestFails, Set!SendFails
  <2>2. state = "setting" /\ sends[i] # Set!SetMsg
    BY <2>1 DEF Set!IsOfChild
  <2>3. CASE sends[Len(sends)] = Set!SetMsg
    <3>1. i # Len(sends)
      BY <2>2, <2>3
    <3>2. sends' \in Seq(SetSent) /\ sends' # <<>> /\ sends'[Len(sends')] = Set!SetMsg
      BY <1>0, <2>1, <2>3, <3>1, RemovalKeepsLast
    <3> QED BY <2>1, <2>2, <3>2 DEF SetStands, Standing
  <2>4. CASE timer = Set!SetMsg
    <3>1. sends' \in Seq(SetSent)
      BY <1>0, <2>1 DEF Set!RemoveAt
    <3> QED BY <1>0, <2>1, <2>2, <2>4, <3>1 DEF SetStands, Standing
  <2> QED BY <2>2, <2>3, <2>4 DEF SetStands
<1>3. CASE Set!Retry
  <2>1. timer # NoTimer /\ sends' = Append(sends, timer) /\ timer' = NoTimer /\ UNCHANGED state
    BY <1>3, SentIsNotNothing DEF Set!Retry, Set!RetryDue, Set!Send
  <2>2. timer \in SetSent /\ (state = "setting" => timer = Set!SetMsg)
    BY <2>1 DEF Standing, SetStands
  <2>3. sends' # <<>> /\ sends'[Len(sends')] = timer
    BY <1>0, <2>1, <2>2
  <2>4. Standing(SetSent, SetSent)'
    BY <2>1, <2>2, SendStands
  <2> QED BY <2>1, <2>2, <2>3, <2>4 DEF SetStands
<1>4. ASSUME NEW v, Set!OnRead(v) PROVE Standing(SetSent, SetSent)' /\ SetStands'
  <2>1. sends' = Append(sends, Set!SetMsg) /\ timer' = NoTimer /\ state' = "setting"
    BY <1>4, SentIsNotNothing DEF Set!OnRead, Set!Send
  <2>2. sends' # <<>> /\ sends'[Len(sends')] = Set!SetMsg
    BY <1>0, <2>1
  <2>3. Standing(SetSent, SetSent)'
    BY <1>0, <2>1, SendStands
  <2> QED BY <2>1, <2>2, <2>3 DEF SetStands
<1>5. ASSUME NEW v, Set!OnEcho(v) PROVE Standing(SetSent, SetSent)' /\ SetStands'
  <2>1. UNCHANGED <<sends, timer, state>>
    BY <1>5 DEF Set!OnEcho
  <2> QED BY <2>1 DEF Standing, SetStands
<1>6. CASE Set!VehicleAnswers \/ Set!VehicleNotifies
  <2>1. UNCHANGED <<sends, timer, state>>
    BY <1>6 DEF Set!VehicleAnswers, Set!Answers, Set!AnswersAll, Set!VehicleNotifies
  <2> QED BY <2>1 DEF Standing, SetStands
<1>7. CASE Set!Exhausted \/ Set!AbortWorkflow \/ Set!TimeoutIgnored
  BY <1>7 DEF Set!Exhausted, Set!RetriesExhausted, Set!AbortWorkflow, Set!TimeoutIgnored
<1> QED BY <1>1, <1>2, <1>3, <1>4, <1>5, <1>6, <1>7 DEF Set!Next

\* A settlement is final, and every step of a running transfer keeps it waiting
\* for something.
LEMMA StandStep == ASSUME StandInv, [Next]_vars PROVE StandInv'
<1>1. CASE UNCHANGED vars
  BY <1>1 DEF vars, baseVars, StandInv, Standing, SetStands
<1>2. CASE Next
  <2> SUFFICES ASSUME outcome' = "running" PROVE StandInv'
    BY DEF StandInv
  <2>1. outcome = "running"
    <3>1. CASE kind = "download"
      BY <1>2, <3>1 DEF Next, Down!Next, Down!Settle, Down!Running, Down!RequestSent, Down!AckSettles,
         Down!RequestFails, Down!Retry, Down!RetryDue, Down!OnCount, Down!OnItem, Down!OnDenied,
         Down!VehicleAnswers, Down!Answers, Down!AnswersAll, Down!AbortWorkflow, Down!RetriesExhausted,
         Down!TimeoutIgnored, Down!Arrives
    <3>2. CASE kind = "upload"
      BY <1>2, <3>2 DEF Next, Up!Next, Up!Settle, Up!Running, Up!FrameSent, Up!FrameFails, Up!Retry,
         Up!RetryDue, Up!OnRequest, Up!OnAck, Up!VehicleAnswers, Up!Answers, Up!AnswersAll,
         Up!VehicleAsksAgain, Up!AbortWorkflow, Up!RetriesExhausted, Up!TimeoutIgnored, Up!Arrives
    <3>3. CASE kind = "clear"
      BY <1>2, <3>3 DEF Next, Clear!Next, Clear!Settle, Clear!Running, Clear!ClearSent, Clear!ClearFails,
         Clear!Retry, Clear!RetryDue, Clear!OnAck, Clear!VehicleAnswers, Clear!Answers, Clear!AnswersAll,
         Clear!AbortWorkflow, Clear!RetriesExhausted, Clear!TimeoutIgnored, Clear!Arrives
    <3>4. CASE kind = "list"
      BY <1>2, <3>4 DEF Next, List!Next, List!Settle, List!Running, List!RequestSent, List!RequestFails,
         List!Retry, List!RetryDue, List!OnValue, List!VehicleAnswers, List!VehicleNotifies, List!Answers,
         List!AnswersAll, List!AbortWorkflow, List!RetriesExhausted, List!TimeoutIgnored, List!Arrives
    <3>5. CASE kind = "set"
      BY <1>2, <3>5 DEF Next, Set!Next, Set!Settle, Set!Running, Set!RequestSent, Set!RequestFails,
         Set!Retry, Set!RetryDue, Set!OnRead, Set!OnEcho, Set!VehicleAnswers, Set!VehicleNotifies,
         Set!Answers, Set!AnswersAll, Set!Exhausted, Set!AbortWorkflow, Set!RetriesExhausted,
         Set!TimeoutIgnored, Set!Arrives
    <3> QED BY <1>2, <3>1, <3>2, <3>3, <3>4, <3>5 DEF Next
  <2>2. CASE kind = "download"
    <3>1. Standing(DownSent, DownSent)'
      BY <1>2, <2>1, <2>2, DownStands DEF StandInv, Next
    <3> QED BY <1>2, <2>2, <3>1 DEF StandInv, Next
  <2>3. CASE kind = "upload"
    <3>1. Standing(UpMessages, UpMessages)'
      BY <1>2, <2>1, <2>3, UpStands DEF StandInv, Next
    <3> QED BY <1>2, <2>3, <3>1 DEF StandInv, Next
  <2>4. CASE kind = "clear"
    <3>1. Standing(ClearSent, ClearSent)'
      BY <1>2, <2>1, <2>4, ClearStands DEF StandInv, Next
    <3> QED BY <1>2, <2>4, <3>1 DEF StandInv, Next
  <2>5. CASE kind = "list"
    <3>1. Standing(ListSent, {List!OnStall})'
      BY <1>2, <2>1, <2>5, ListStands DEF StandInv, Next
    <3> QED BY <1>2, <2>5, <3>1 DEF StandInv, Next
  <2>6. CASE kind = "set"
    <3>1. Standing(SetSent, SetSent)' /\ SetStands'
      BY <1>2, <2>1, <2>6, SetStandsStep DEF StandInv, Next
    <3> QED BY <1>2, <2>6, <3>1 DEF StandInv, Next
  <2> QED BY <1>2, <2>2, <2>3, <2>4, <2>5, <2>6 DEF Next
<1> QED BY <1>1, <1>2

\* A transfer that has not settled has a send under way or a timeout armed, for
\* any mission, retry budget and replies, with slow writes too: what is left for
\* TransferSettles to rest on is that sends settle and timeouts expire.
THEOREM TransferNeverStranded == Spec => []NeverStranded
<1>1. Init => StandInv
  BY StandInit
<1>2. StandInv /\ [Next]_vars => StandInv'
  BY StandStep
<1>3. Init => kind \in {"download", "upload", "clear", "list", "set"}
  BY DEF Init
<1>4. kind \in {"download", "upload", "clear", "list", "set"} /\ [Next]_vars
        => (kind \in {"download", "upload", "clear", "list", "set"})'
  BY DEF Next, vars
<1>5. StandInv /\ kind \in {"download", "upload", "clear", "list", "set"} => NeverStranded
  BY SentIsNotNothing DEF StandInv, Standing, NeverStranded, Running
<1> QED BY <1>1, <1>2, <1>3, <1>4, <1>5, PTL DEF Spec

\* With writes done before timeouts are over, no late answer, repetition or
\* timeout takes a running download back to an item it has.
THEOREM DownloadNeverRegresses == Spec => PromptNeverRegresses
<1>1. ASSUME DownInv, Next, prompt, kind = "download", Running
      PROVE  expectedSeq' >= expectedSeq
  <2>0. Down!Next
    BY <1>1 DEF Next
  <2>1. DownRunning
    BY <1>1 DEF DownInv, Running
  <2>2. expectedSeq \in Nat
    BY <2>1, MissionAssumption DEF DownRunning, DownProgress
  <2>3. CASE Down!Retry
    <3>1. /\ sends = <<>> /\ timer # NoTimer
          /\ timer = Down!RequestList => UNCHANGED expectedSeq
          /\ timer # Down!RequestList => expectedSeq' = timer.seq
      BY <1>1, <2>3, DownMessagesDiffer DEF Down!Retry, Down!RetryDue, Down!Repeat
    <3>2. timer = Awaited /\ state # "sending_ack" /\ DownProgress
      BY <2>1, <3>1 DEF DownRunning, LatestIsAwaited
    <3>3. UNCHANGED expectedSeq
      BY <3>1, <3>2, DownMessagesDiffer DEF DownProgress, Awaited
    <3> QED BY <2>2, <3>3
  <2>4. CASE Down!OnCount
    <3>1. state = "waiting_count" => expectedSeq = 0
      BY <2>1 DEF DownRunning, DownProgress
    <3>2. UNCHANGED expectedSeq \/ (state = "waiting_count" /\ expectedSeq' = 0)
      BY <2>4, DownMessagesDiffer DEF Down!OnCount, Down!Finish, Down!Repeat
    <3> QED BY <2>2, <3>1, <3>2
  <2>5. ASSUME NEW seq \in 0..(Count - 1), Down!OnItem(seq) PROVE expectedSeq' >= expectedSeq
    <3>1. UNCHANGED expectedSeq \/ (seq = expectedSeq /\ expectedSeq' = seq + 1)
      BY <2>5, DownMessagesDiffer DEF Down!OnItem, Down!Takes, Down!Finish, Down!Repeat
    <3> QED BY <2>2, <3>1
  <2>6. CASE \/ Down!RequestSent \/ Down!AckSettles \/ Down!RequestFails \/ Down!OnDenied
             \/ Down!VehicleAnswers \/ UNCHANGED Down!ItsVars
    <3>1. UNCHANGED expectedSeq
      BY <2>6 DEF Down!RequestSent, Down!AckSettles, Down!RequestFails, Down!OnDenied,
         Down!VehicleAnswers, Down!ItsVars
    <3> QED BY <2>2, <3>1
  <2> QED BY <2>0, <2>3, <2>4, <2>5, <2>6 DEF Down!Next
<1>2. TransfersInv /\ [Next]_vars
        => [prompt /\ kind = "download" /\ Running => expectedSeq' >= expectedSeq]_vars
  BY <1>1 DEF TransfersInv
<1> QED BY <1>2, TransfersInvariant, PTL DEF Spec, PromptNeverRegresses
=============================================================================
