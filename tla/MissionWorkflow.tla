-------------------------- MODULE MissionWorkflow --------------------------
(***************************************************************************)
(* What the mission workflows share: the base class MissionWorkflow        *)
(* (lib/mission/mission-state-machine.js), the connection it sends through *)
(* and the link to the vehicle.  MissionDownload, MissionUpload and        *)
(* MissionClear extend this module with their handlers, and so do ParamList *)
(* and ParamSet: their base class ParamWorkflow (lib/param/param-workflow.js) *)
(* settles, retries and times out by the same code.                        *)
(*                                                                         *)
(* All traffic of a workflow rides one priority band, so its frames leave  *)
(* in the order of the sends.  A message is a record [name, seq]; what a   *)
(* frame carries besides its sequence number is abstracted.                *)
(***************************************************************************)
EXTENDS Integers, SequencesExt

CONSTANTS Count,        \* items in the mission, or parameters of the vehicle
          MaxRetries,   \* maxRetries
          MaxReplies    \* bound: messages the vehicle sends or the link duplicates

ASSUME MissionAssumption ==
  /\ Count \in Nat
  /\ MaxRetries \in Nat
  /\ MaxReplies \in Nat

VARIABLES prompt,    \* TRUE: every send settles before a timeout expires
          outcome,   \* how the workflow settled, or "running"
          state,     \* state
          sends,     \* its sends that have not settled, in order
          timer,     \* the message the armed timeout will send again, or NoTimer
          retries,   \* _retries
          heard,     \* messages on their way to the vehicle or received by it, not answered yet
          replies,   \* messages from the vehicle under way
          replied    \* messages sent by the vehicle or duplicated so far

baseVars == <<prompt, outcome, state, sends, timer, retries, heard, replies, replied>>

Message(name, seq) == [name |-> name, seq |-> seq]
NoTimer == Message("none", 0)

Running == outcome = "running"

-----------------------------------------------------------------------------
(* Settling: _complete, _fail and _cleanup.  The first settlement wins. *)

Settle(how) ==
  /\ outcome' = IF Running THEN how ELSE outcome
  /\ timer' = IF Running THEN NoTimer ELSE timer

\* abort(): the owning node closes.
AbortWorkflow ==
  /\ Running
  /\ Settle("failed")
  /\ UNCHANGED <<state, sends, retries, heard, replies, replied>>

-----------------------------------------------------------------------------
(* The send promises *)

Send(m) == sends' = Append(sends, m)

\* The frame of the oldest send goes out.  What follows a settlement on the link
\* is nothing the workflow sees.
FrameOut ==
  /\ sends # <<>>
  /\ sends' = Tail(sends)
  /\ heard' = IF Running THEN heard \cup {Head(sends)} ELSE heard
  /\ UNCHANGED <<replies, replied>>

\* The i-th send fails: its write does, or the queue refuses or drops it.
SendFails(i) ==
  /\ sends' = RemoveAt(sends, i)
  /\ UNCHANGED <<heard, replies, replied>>

-----------------------------------------------------------------------------
(* _armTimeout *)

\* Fault: retries are not counted.
CountRetryNever == retries

CountRetry == retries + 1

MayRetry == retries < MaxRetries

\* The timeout of a running workflow that may still retry; the handler sends
\* the message again.
RetryDue ==
  /\ timer # NoTimer
  /\ Running
  /\ prompt => sends = <<>>
  /\ MayRetry
  /\ retries' = CountRetry
  /\ timer' = NoTimer
  /\ UNCHANGED <<outcome, heard, replies, replied>>

RetriesExhausted(how) ==
  /\ timer # NoTimer
  /\ Running
  /\ prompt => sends = <<>>
  /\ ~MayRetry
  /\ Settle(how)
  /\ UNCHANGED <<state, sends, retries, heard, replies, replied>>

\* A timeout armed by a send that settled after the workflow did.
TimeoutIgnored ==
  /\ timer # NoTimer
  /\ ~Running
  /\ timer' = NoTimer
  /\ UNCHANGED <<outcome, state, sends, retries, heard, replies, replied>>

-----------------------------------------------------------------------------
(* The link and the vehicle.  A message under way may never arrive, and one that
   was heard may never be answered: that is the loss of either. *)

\* A message arrives, and may arrive again.
Arrives(m) ==
  /\ Running
  /\ m \in replies
  /\ \/ replies' = replies \ {m} /\ UNCHANGED replied
     \/ replied < MaxReplies /\ replied' = replied + 1 /\ UNCHANGED replies

\* External: the vehicle answers a message it heard with the messages ms.
AnswersAll(to, ms) ==
  /\ Running
  /\ to \in heard
  /\ replied < MaxReplies
  /\ heard' = heard \ {to}
  /\ replies' = replies \cup ms
  /\ replied' = replied + 1
  /\ UNCHANGED <<outcome, state, sends, timer, retries>>

Answers(to, m) == AnswersAll(to, {m})

\* run(): the first message is sent; replies to earlier transfers may be about.
BaseInit(first, waiting, stale) ==
  /\ prompt \in BOOLEAN
  /\ outcome = "running"
  /\ state = waiting
  /\ sends = <<first>>
  /\ timer = NoTimer
  /\ retries = 0
  /\ heard = {}
  /\ replies \in stale
  /\ replied = 0
=============================================================================
