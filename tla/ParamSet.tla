------------------------------ MODULE ParamSet ------------------------------
(***************************************************************************)
(* Setting a parameter (ParamSet and ParamSetAuto in                       *)
(* lib/param/param-workflow.js): ParamSetAuto first reads the parameter to *)
(* learn its type, then runs a ParamSet of its own.  A value is the one    *)
(* requested (1) or the one the vehicle had (0); encoding, precision and   *)
(* range check are abstracted.                                             *)
(***************************************************************************)
EXTENDS MissionWorkflow

VARIABLES echo,     \* _lastEcho is set: the vehicle showed another value
          stored,   \* vehicle: the value it stores
          landed    \* vehicle: it has stored the requested value at some time

vars == <<baseVars, echo, stored, landed>>
ItsVars == <<echo, stored, landed>>

ReadMsg == Message("READ", 0)
SetMsg == Message("SET", 1)
Value(v) == Message("VALUE", v)

-----------------------------------------------------------------------------
\* A write is done and its timeout is armed: the one of the workflow that sent
\* it, so a read that settled meanwhile arms nothing for the set.
IsOfChild(m) == state = "setting" => m = SetMsg

RequestSent ==
  /\ FrameOut
  /\ timer' = IF IsOfChild(Head(sends)) THEN Head(sends) ELSE timer
  /\ UNCHANGED <<outcome, state, retries, ItsVars>>

RequestFails ==
  /\ \E i \in DOMAIN sends :
       /\ SendFails(i)
       /\ IF IsOfChild(sends[i]) THEN Settle("failed") ELSE UNCHANGED <<outcome, timer>>
  /\ UNCHANGED <<state, retries, ItsVars>>

Retry ==
  /\ RetryDue
  /\ Send(timer)
  /\ UNCHANGED <<state, ItsVars>>

\* _fail of ParamSet: the last timeout reports a value seen meanwhile.
Exhausted ==
  /\ RetriesExhausted(IF echo THEN "unapplied" ELSE "failed")
  /\ UNCHANGED ItsVars

\* ParamRead._onValue and the rest of ParamSetAuto.run: the read is complete, the
\* set starts with retries of its own.
OnRead(v) ==
  /\ state = "reading"
  /\ Arrives(Value(v))
  /\ state' = "setting"
  /\ timer' = NoTimer
  /\ retries' = 0
  /\ Send(SetMsg)
  /\ UNCHANGED <<outcome, heard, ItsVars>>

\* Fault: any echo is taken for the confirmation.
ConfirmsAnything(v) == TRUE

Confirms(v) == v = 1

\* ParamSet._onValue: an echo of another value is remembered, not believed.
OnEcho(v) ==
  /\ state = "setting"
  /\ Arrives(Value(v))
  /\ IF Confirms(v) THEN Settle("complete") /\ UNCHANGED echo
                    ELSE echo' = TRUE /\ UNCHANGED <<outcome, timer>>
  /\ UNCHANGED <<state, sends, retries, heard, stored, landed>>

-----------------------------------------------------------------------------
\* External: the vehicle stores the value or keeps its own, and shows what it stores.
VehicleAnswers ==
  /\ \/ Answers(ReadMsg, Value(stored)) /\ UNCHANGED <<stored, landed>>
     \/ Answers(SetMsg, Value(stored)) /\ UNCHANGED <<stored, landed>>
     \/ Answers(SetMsg, Value(1)) /\ stored' = 1 /\ landed' = TRUE
  /\ UNCHANGED echo

\* External: it shows what it stores unasked, or another station changes it.
VehicleNotifies ==
  /\ Running
  /\ replied < MaxReplies
  /\ stored' \in {0, stored}
  /\ replies' = replies \cup {Value(stored')}
  /\ replied' = replied + 1
  /\ UNCHANGED <<outcome, state, sends, timer, retries, heard, echo, landed>>

Init ==
  /\ \/ BaseInit(ReadMsg, "reading", {{}})
     \/ BaseInit(SetMsg, "setting", {{}})
  /\ echo = FALSE
  /\ stored = 0
  /\ landed = FALSE

Next ==
  /\ \/ RequestSent \/ RequestFails \/ Retry \/ Exhausted
     \/ (\E v \in {0, 1} : OnRead(v) \/ OnEcho(v))
     \/ VehicleAnswers \/ VehicleNotifies
     \/ (AbortWorkflow \/ TimeoutIgnored) /\ UNCHANGED ItsVars
  /\ UNCHANGED prompt

SendSettles == (RequestSent \/ RequestFails) /\ UNCHANGED prompt
TimerFires == (Retry \/ Exhausted) /\ UNCHANGED prompt

-----------------------------------------------------------------------------
(* Properties *)

\* A set reported as applied was stored by the vehicle: old values still under
\* way, of the read, of a notification or of another station, do not confirm it.
AppliedMeansStored == outcome = "complete" => landed
=============================================================================
