---------------------------- MODULE MissionClear ----------------------------
(***************************************************************************)
(* The mission clear workflow (lib/mission/mission-clear.js): send         *)
(* MISSION_CLEAR_ALL, repeat it on a timeout, and settle on the first      *)
(* acknowledgement.                                                        *)
(***************************************************************************)
EXTENDS MissionWorkflow

VARIABLES cleared,    \* vehicle: it has cleared its mission for this workflow
          leftover    \* an acknowledgement of an earlier transfer was under way

vars == <<baseVars, cleared, leftover>>
ItsVars == <<cleared, leftover>>

ClearAll == Message("CLEAR_ALL", 0)
Accepted == Message("ACCEPTED", 0)
Rejected == Message("REJECTED", 0)

-----------------------------------------------------------------------------
\* The write is done and the timeout armed, even when the workflow has settled.
ClearSent ==
  /\ FrameOut
  /\ timer' = ClearAll
  /\ UNCHANGED <<outcome, state, retries, ItsVars>>

ClearFails ==
  /\ \E i \in DOMAIN sends : SendFails(i)
  /\ Settle("failed")
  /\ UNCHANGED <<state, retries, ItsVars>>

\* _sendClear, called again by the timeout.
Retry ==
  /\ RetryDue
  /\ Send(ClearAll)
  /\ UNCHANGED <<state, ItsVars>>

\* Fault: the result code is not looked at.
VerdictAnyResult(ack) == "complete"

Verdict(ack) == IF ack = Accepted THEN "complete" ELSE "failed"

\* _onAck: any acknowledgement of this mission type settles the workflow.
OnAck(ack) ==
  /\ Arrives(ack)
  /\ Settle(Verdict(ack))
  /\ UNCHANGED <<state, sends, retries, heard, ItsVars>>

-----------------------------------------------------------------------------
\* External: the vehicle clears its mission and says so, or refuses.
VehicleAnswers ==
  /\ \/ Answers(ClearAll, Accepted) /\ cleared' = TRUE
     \/ Answers(ClearAll, Rejected) /\ UNCHANGED cleared
  /\ UNCHANGED leftover

Init ==
  /\ BaseInit(ClearAll, "waiting_ack", {{}, {Accepted}})
  /\ leftover = (replies # {})
  /\ cleared = FALSE

Next ==
  /\ \/ ClearSent \/ ClearFails \/ Retry
     \/ OnAck(Accepted) \/ OnAck(Rejected)
     \/ VehicleAnswers
     \/ (AbortWorkflow \/ RetriesExhausted("failed") \/ TimeoutIgnored) /\ UNCHANGED ItsVars
  /\ UNCHANGED prompt

SendSettles == (ClearSent \/ ClearFails) /\ UNCHANGED prompt
TimerFires == (Retry \/ (RetriesExhausted("failed") /\ UNCHANGED ItsVars)) /\ UNCHANGED prompt

-----------------------------------------------------------------------------
(* Properties *)

\* "The same certainty as upload/download" (class comment): a clear reported
\* as acknowledged happened, whatever was lost, repeated or left over.
ClearMeansCleared == outcome = "complete" => cleared
=============================================================================
