-------------------------- MODULE MissionDownload --------------------------
(***************************************************************************)
(* The mission download workflow (lib/mission/mission-download.js):        *)
(* request the list, then one item after the other, then acknowledge.      *)
(* The fall-back from MISSION_REQUEST_INT to MISSION_REQUEST changes only  *)
(* the encoding of the items and is abstracted.                            *)
(***************************************************************************)
EXTENDS MissionWorkflow

VARIABLES count,        \* count
          expectedSeq,  \* expectedSeq
          items         \* sequence numbers of the items stored so far

vars == <<baseVars, count, expectedSeq, items>>

RequestList == Message("REQUEST_LIST", 0)
Request(seq) == Message("REQUEST", seq)
Ack == Message("ACK", 0)
CountIs == Message("COUNT", Count)
Item(seq) == Message("ITEM", seq)
Denied == Message("DENIED", 0)

-----------------------------------------------------------------------------
(* Sending *)

\* _requestList and _requestItem, called again by a timeout: the request that
\* is repeated also decides what the workflow waits for.
Repeat(request) ==
  /\ Send(request)
  /\ IF request = RequestList
       THEN state' = "waiting_count" /\ UNCHANGED expectedSeq
       ELSE state' = "waiting_item" /\ expectedSeq' = request.seq

\* The write of a request is done and its timeout is armed, even when an answer
\* to an earlier copy has moved the workflow on in the meantime.
RequestSent ==
  /\ FrameOut
  /\ Head(sends) # Ack
  /\ timer' = Head(sends)
  /\ UNCHANGED <<outcome, state, retries, count, expectedSeq, items>>

\* The acknowledgement is best effort: the download is complete either way.
AckSettles ==
  /\ \/ FrameOut /\ Head(sends) = Ack
     \/ \E i \in DOMAIN sends : sends[i] = Ack /\ SendFails(i)
  /\ Settle("complete")
  /\ UNCHANGED <<state, retries, count, expectedSeq, items>>

RequestFails ==
  /\ \E i \in DOMAIN sends : sends[i] # Ack /\ SendFails(i)
  /\ Settle("failed")
  /\ UNCHANGED <<state, retries, count, expectedSeq, items>>

Retry ==
  /\ RetryDue
  /\ Repeat(timer)
  /\ UNCHANGED <<count, items>>

-----------------------------------------------------------------------------
(* _onMessage *)

\* _finish
Finish ==
  /\ state' = "sending_ack"
  /\ Send(Ack)
  /\ UNCHANGED expectedSeq

OnCount ==
  /\ Arrives(CountIs)
  /\ IF state = "waiting_count"
       THEN /\ timer' = NoTimer
            /\ retries' = 0
            /\ count' = Count
            /\ IF Count = 0 THEN Finish ELSE Repeat(Request(0))
       ELSE UNCHANGED <<timer, retries, count, state, sends, expectedSeq>>
  /\ UNCHANGED <<outcome, heard, items>>

\* Fault: an item is taken whatever its sequence number.
TakesAnyItem(seq) == state = "waiting_item"

Takes(seq) == state = "waiting_item" /\ seq = expectedSeq

OnItem(seq) ==
  /\ Arrives(Item(seq))
  /\ IF Takes(seq)
       THEN /\ timer' = NoTimer
            /\ retries' = 0
            /\ items' = Append(items, seq)
            /\ IF seq + 1 >= count THEN Finish ELSE Repeat(Request(seq + 1))
       ELSE UNCHANGED <<timer, retries, items, state, sends, expectedSeq>>
  /\ UNCHANGED <<outcome, heard, count>>

\* A MISSION_ACK with an error result; an ACCEPTED one is ignored.
OnDenied ==
  /\ Arrives(Denied)
  /\ Settle("failed")
  /\ UNCHANGED <<state, sends, retries, heard, count, expectedSeq, items>>

-----------------------------------------------------------------------------
\* External: the vehicle answers a list request with the count, an item request
\* with the item, and either with a refusal.
VehicleAnswers ==
  /\ \E m \in heard :
       \/ Answers(m, Denied)
       \/ m = RequestList /\ Answers(m, CountIs)
       \/ m.name = "REQUEST" /\ Answers(m, Item(m.seq))
  /\ UNCHANGED <<count, expectedSeq, items>>

Init ==
  /\ BaseInit(RequestList, "waiting_count", {{}})
  /\ count = 0
  /\ expectedSeq = 0
  /\ items = <<>>

ItsVars == <<count, expectedSeq, items>>

Next ==
  /\ \/ RequestSent \/ AckSettles \/ RequestFails \/ Retry
     \/ OnCount \/ (\E seq \in 0..(Count - 1) : OnItem(seq)) \/ OnDenied
     \/ VehicleAnswers
     \/ (AbortWorkflow \/ RetriesExhausted("failed") \/ TimeoutIgnored) /\ UNCHANGED ItsVars
  /\ UNCHANGED prompt

SendSettles == (RequestSent \/ AckSettles \/ RequestFails) /\ UNCHANGED prompt
TimerFires == (Retry \/ (RetriesExhausted("failed") /\ UNCHANGED ItsVars)) /\ UNCHANGED prompt

-----------------------------------------------------------------------------
(* Properties *)

\* A completed download is the mission: every item once and in order, whatever
\* was lost, duplicated, delayed or requested again on the way.
DownloadIsMission ==
  outcome = "complete" => items = [i \in 1..Count |-> i - 1]
=============================================================================
