--------------------------- MODULE MissionUpload ---------------------------
(***************************************************************************)
(* The mission upload workflow (lib/mission/mission-upload.js): announce   *)
(* the count, answer the vehicle's requests for items, wait for its        *)
(* acknowledgement.  The vehicle pulls the items in order, but may ask     *)
(* again for one it has, without end; an acknowledgement of an earlier     *)
(* transfer may still be under way.  Abstracted: item types, conversion of *)
(* fields, and the state field, which only words the timeout error.        *)
(***************************************************************************)
EXTENDS MissionWorkflow, FiniteSets

VARIABLES maxSeqSent,  \* _maxSeqSent
          itemSends,   \* _itemSends
          holds,       \* vehicle: the number of items it holds, a prefix
          leftover     \* an acknowledgement of an earlier transfer was under way

vars == <<baseVars, maxSeqSent, itemSends, holds, leftover>>

CountMsg == Message("COUNT", Count)
Item(seq) == Message("ITEM", seq)
Request(seq) == Message("REQUEST", seq)
Accepted == Message("ACCEPTED", 0)
Rejected == Message("REJECTED", 0)

ItsVars == <<maxSeqSent, itemSends, holds, leftover>>

-----------------------------------------------------------------------------
(* Sending *)

\* A write is done; its timeout is armed to send the same frame again, whatever
\* has happened meanwhile.
FrameSent ==
  /\ FrameOut
  /\ timer' = Head(sends)
  /\ UNCHANGED <<outcome, state, retries, ItsVars>>

FrameFails ==
  /\ \E i \in DOMAIN sends : SendFails(i)
  /\ Settle("failed")
  /\ UNCHANGED <<state, retries, ItsVars>>

\* _sendCount or _resendItem.
Retry ==
  /\ RetryDue
  /\ Send(timer)
  /\ UNCHANGED <<state, ItsVars>>

-----------------------------------------------------------------------------
(* _onMessage *)

\* One send and MaxRetries repetitions per item, all items together.
Stalled == itemSends + 1 > Count * (MaxRetries + 1)

OnRequest(seq) ==
  /\ Arrives(Request(seq))
  /\ IF seq >= Count
       THEN /\ Settle("failed")
            /\ UNCHANGED <<sends, retries, maxSeqSent, itemSends>>
       ELSE /\ maxSeqSent' = Max({maxSeqSent, seq})
            /\ itemSends' = itemSends + 1
            /\ \/ /\ Stalled
                  /\ Settle("failed")
                  /\ UNCHANGED <<sends, retries>>
               \/ /\ ~Stalled
                  /\ timer' = NoTimer
                  /\ retries' = 0
                  /\ Send(Item(seq))
                  /\ UNCHANGED outcome
  /\ UNCHANGED <<state, heard, holds, leftover>>

\* Fault: an acknowledgement always ends the upload.
HonoursAnyAck == TRUE

\* An ACCEPTED counts only once the last item has been asked for.
HonoursAck == Count = 0 \/ maxSeqSent >= Count - 1

\* Fault: the result code is not looked at.
VerdictAnyResult(ack) == "complete"

Verdict(ack) == IF ack = Accepted THEN "complete" ELSE "failed"

OnAck(ack) ==
  /\ Arrives(ack)
  /\ IF ack = Accepted /\ ~HonoursAck THEN UNCHANGED <<outcome, timer>>
                                     ELSE Settle(Verdict(ack))
  /\ UNCHANGED <<state, sends, retries, heard, ItsVars>>

-----------------------------------------------------------------------------
(* External: the vehicle *)

\* What the vehicle holds once it has processed m.
HoldsAfter(m) == IF m = Item(holds) THEN holds + 1 ELSE holds

\* It asks for the next item, or acknowledges the last; it may also refuse, or
\* ask for an item the mission does not have.
VehicleAnswers ==
  /\ \E m \in heard :
       /\ holds' = HoldsAfter(m)
       /\ \/ holds' < Count /\ Answers(m, Request(holds'))
          \/ holds' = Count /\ Answers(m, Accepted)
          \/ Answers(m, Rejected)
          \/ Answers(m, Request(Count))
  /\ UNCHANGED <<maxSeqSent, itemSends, leftover>>

\* It asks once more for an item it has, without being prompted and without end.
VehicleAsksAgain ==
  /\ Running
  /\ ~leftover
  /\ \E seq \in 0..(holds - 1) : replies' = replies \cup {Request(seq)}
  /\ UNCHANGED <<outcome, state, sends, timer, retries, heard, replied, ItsVars>>

-----------------------------------------------------------------------------
Init ==
  /\ BaseInit(CountMsg, "waiting_request", {{}, {Accepted}})
  /\ leftover = (replies # {})
  /\ maxSeqSent = -1
  /\ itemSends = 0
  /\ holds = 0

Next ==
  /\ \/ FrameSent \/ FrameFails \/ Retry
     \/ (\E seq \in 0..Count : OnRequest(seq)) \/ OnAck(Accepted) \/ OnAck(Rejected)
     \/ VehicleAnswers \/ VehicleAsksAgain
     \/ (AbortWorkflow \/ RetriesExhausted("failed") \/ TimeoutIgnored) /\ UNCHANGED ItsVars
  /\ UNCHANGED prompt

SendSettles == (FrameSent \/ FrameFails) /\ UNCHANGED prompt
TimerFires == (Retry \/ (RetriesExhausted("failed") /\ UNCHANGED ItsVars)) /\ UNCHANGED prompt

-----------------------------------------------------------------------------
(* Properties *)

\* "can't complete a partial upload" (constructor, about _maxSeqSent), as far as
\* the code carries it: a reported success leaves no item but the last one in
\* doubt, even if the acknowledgement was left over from an earlier transfer.
OnlyLastInDoubt == outcome = "complete" => holds >= Count - 1

\* A success the vehicle itself reported is true: without leftovers of earlier
\* transfers, a completed upload is a vehicle holding the whole mission.
CompleteMeansHeld == outcome = "complete" /\ ~leftover => holds = Count
=============================================================================
