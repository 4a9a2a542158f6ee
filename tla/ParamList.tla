------------------------------ MODULE ParamList ------------------------------
(***************************************************************************)
(* The parameter list workflow (ParamList in lib/param/param-workflow.js): *)
(* request the list, collect the values that stream back, and ask for the  *)
(* missing ones one by one whenever the stream stalls.  The vehicle's      *)
(* param_count is the constant Count; its values are abstracted, and the   *)
(* state field only words the timeout error.                               *)
(***************************************************************************)
EXTENDS MissionWorkflow

CONSTANT NoIndex   \* PARAM_INDEX_NONE, of unsolicited notifications

VARIABLES known,      \* count is known
          received    \* the indices in received

vars == <<baseVars, known, received>>
ItsVars == <<known, received>>

RequestList == Message("REQUEST_LIST", 0)
Read(index) == Message("READ", index)
Value(index) == Message("VALUE", index)
OnStall == Message("stall", 0)
Indices == 0..(Count - 1)

-----------------------------------------------------------------------------
\* _requestList and _requestIndex: the write is done, the stall timer is armed.
RequestSent ==
  /\ FrameOut
  /\ timer' = OnStall
  /\ UNCHANGED <<outcome, state, retries, ItsVars>>

RequestFails ==
  /\ \E i \in DOMAIN sends : SendFails(i)
  /\ Settle("failed")
  /\ UNCHANGED <<state, retries, ItsVars>>

\* _firstMissingIndex
FirstMissing == CHOOSE i \in Indices \ received : \A j \in Indices \ received : i <= j

\* _onStall
Retry ==
  /\ RetryDue
  /\ Send(IF known THEN Read(FirstMissing) ELSE RequestList)
  /\ UNCHANGED <<state, ItsVars>>

\* Fault: a notification without an index counts toward completeness.
IsListedAlways(index) == TRUE

IsListed(index) == index # NoIndex

\* _onValue; the list is complete when it has as many entries as the vehicle
\* has parameters.  A value already held still re-arms the stall timer.
OnValue(index) ==
  /\ Arrives(Value(index))
  /\ IF IsListed(index)
       THEN /\ known' = TRUE
            /\ received' = received \cup {index}
            /\ retries' = IF index \in received THEN retries ELSE 0
            /\ \/ Cardinality(received') >= Count /\ Settle("complete")
               \/ Cardinality(received') < Count /\ timer' = OnStall /\ UNCHANGED outcome
       ELSE UNCHANGED <<outcome, timer, retries, ItsVars>>
  /\ UNCHANGED <<state, sends, heard>>

-----------------------------------------------------------------------------
\* External: the vehicle streams all its parameters, or returns the one asked for.
VehicleAnswers ==
  /\ \/ AnswersAll(RequestList, {Value(i) : i \in Indices})
     \/ \E i \in Indices : Answers(Read(i), Value(i))
  /\ UNCHANGED ItsVars

\* External: it notifies a change of a parameter, with its index or without.
VehicleNotifies ==
  /\ Running
  /\ replied < MaxReplies
  /\ \E index \in Indices \cup {NoIndex} : replies' = replies \cup {Value(index)}
  /\ replied' = replied + 1
  /\ UNCHANGED <<outcome, state, sends, timer, retries, heard, ItsVars>>

Init ==
  /\ BaseInit(RequestList, "requesting", {{}})
  /\ known = FALSE
  /\ received = {}

Next ==
  /\ \/ RequestSent \/ RequestFails \/ Retry
     \/ (\E index \in Indices \cup {NoIndex} : OnValue(index))
     \/ VehicleAnswers \/ VehicleNotifies
     \/ (AbortWorkflow \/ RetriesExhausted("failed") \/ TimeoutIgnored) /\ UNCHANGED ItsVars
  /\ UNCHANGED prompt

SendSettles == (RequestSent \/ RequestFails) /\ UNCHANGED prompt
TimerFires == (Retry \/ (RetriesExhausted("failed") /\ UNCHANGED ItsVars)) /\ UNCHANGED prompt

-----------------------------------------------------------------------------
(* Properties *)

\* "Counting one toward completeness would let received.size reach count while
\* a real index is still missing" (_onValue): a reported list has every index,
\* whatever was lost, repeated or notified while it streamed.
ListIsComplete == outcome = "complete" => received = Indices
=============================================================================
