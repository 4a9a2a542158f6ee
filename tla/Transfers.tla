------------------------------ MODULE Transfers ------------------------------
(***************************************************************************)
(* One transfer with a vehicle: the mission node and the parameter node    *)
(* hold a lock per target while they run one of the five workflows         *)
(* (nodes/mavlink-ai-mission.js, nodes/mavlink-ai-param.js), so a transfer *)
(* meets the leftovers of an earlier one, but never another one.           *)
(***************************************************************************)
EXTENDS MissionWorkflow

CONSTANT NoIndex

ASSUME TransfersAssumption == NoIndex \notin 0..(Count - 1)

VARIABLES kind,                              \* which workflow runs
          count, expectedSeq, items,         \* of MissionDownload
          maxSeqSent, itemSends, holds,      \* of MissionUpload
          cleared, leftover,                 \* of MissionClear; leftover also of the upload
          known, received,                   \* of ParamList
          echo, stored, landed               \* of ParamSet

Down == INSTANCE MissionDownload
Up == INSTANCE MissionUpload
Clear == INSTANCE MissionClear
List == INSTANCE ParamList
Set == INSTANCE ParamSet

ownVars == <<count, expectedSeq, items, maxSeqSent, itemSends, holds,
             cleared, leftover, known, received, echo, stored, landed>>
vars == <<kind, baseVars, ownVars>>

-----------------------------------------------------------------------------
\* What the workflows that do not run would start from.
Blank == /\ count = 0 /\ expectedSeq = 0 /\ items = <<>>
         /\ maxSeqSent = -1 /\ itemSends = 0 /\ holds = 0
         /\ cleared = FALSE
         /\ known = FALSE /\ received = {}
         /\ echo = FALSE /\ stored = 0 /\ landed = FALSE

Init ==
  /\ Blank
  /\ \/ kind = "download" /\ Down!Init /\ leftover = FALSE
     \/ kind = "upload" /\ Up!Init
     \/ kind = "clear" /\ Clear!Init
     \/ kind = "list" /\ List!Init /\ leftover = FALSE
     \/ kind = "set" /\ Set!Init /\ leftover = FALSE

NotDown == UNCHANGED <<maxSeqSent, itemSends, holds, cleared, leftover, known, received, echo, stored, landed>>
NotUp == UNCHANGED <<count, expectedSeq, items, cleared, known, received, echo, stored, landed>>
NotClear == UNCHANGED <<count, expectedSeq, items, maxSeqSent, itemSends, holds, known, received, echo, stored, landed>>
NotList == UNCHANGED <<count, expectedSeq, items, maxSeqSent, itemSends, holds, cleared, leftover, echo, stored, landed>>
NotSet == UNCHANGED <<count, expectedSeq, items, maxSeqSent, itemSends, holds, cleared, leftover, known, received>>

Next ==
  /\ UNCHANGED kind
  /\ \/ kind = "download" /\ Down!Next /\ NotDown
     \/ kind = "upload" /\ Up!Next /\ NotUp
     \/ kind = "clear" /\ Clear!Next /\ NotClear
     \/ kind = "list" /\ List!Next /\ NotList
     \/ kind = "set" /\ Set!Next /\ NotSet

SendSettles ==
  /\ UNCHANGED kind
  /\ \/ kind = "download" /\ Down!SendSettles /\ NotDown
     \/ kind = "upload" /\ Up!SendSettles /\ NotUp
     \/ kind = "clear" /\ Clear!SendSettles /\ NotClear
     \/ kind = "list" /\ List!SendSettles /\ NotList
     \/ kind = "set" /\ Set!SendSettles /\ NotSet

TimerFires ==
  /\ UNCHANGED kind
  /\ \/ kind = "download" /\ Down!TimerFires /\ NotDown
     \/ kind = "upload" /\ Up!TimerFires /\ NotUp
     \/ kind = "clear" /\ Clear!TimerFires /\ NotClear
     \/ kind = "list" /\ List!TimerFires /\ NotList
     \/ kind = "set" /\ Set!TimerFires /\ NotSet

Spec == Init /\ [][Next]_vars

\* Every send settles and an armed timeout expires; the vehicle and the link
\* promise nothing, except that a parameter list is not disturbed forever
\* (MaxReplies): each repeated value re-arms its timeout.
FairSpec == Spec /\ WF_vars(SendSettles) /\ WF_vars(TimerFires)

-----------------------------------------------------------------------------
(* Properties *)

\* A completed download is the mission: every item once and in order, whatever
\* was lost, duplicated, delayed or requested again on the way
\* ("Out-of-order or duplicate; ignore", MissionDownload._onMessage).
DownloadIsMission == kind = "download" => Down!DownloadIsMission

\* The same, as long as the connection writes a frame before the response
\* timeout is over.
PromptDownloadIsMission == prompt => DownloadIsMission

\* "can't complete a partial upload" (MissionUpload's constructor), as far as
\* the code carries it: a reported success leaves no item but the last one in
\* doubt, even if the acknowledgement was left over from an earlier transfer.
OnlyLastInDoubt == kind = "upload" => Up!OnlyLastInDoubt

\* A success the vehicle itself reported is true: without leftovers of earlier
\* transfers, a completed upload is a vehicle holding the whole mission, and
\* an acknowledged clear has happened.
CompleteMeansHeld == kind = "upload" => Up!CompleteMeansHeld
CompleteMeansCleared == kind = "clear" /\ ~leftover => Clear!ClearMeansCleared

\* "The same certainty as upload/download" (MissionClear's comment): an
\* acknowledged clear has happened, leftovers or not.
ClearMeansCleared == kind = "clear" => Clear!ClearMeansCleared

\* "Counting one toward completeness would let received.size reach count while
\* a real index is still missing" (ParamList._onValue): a reported list has
\* every index, whatever was lost, repeated or notified while it streamed.
ListIsComplete == kind = "list" => List!ListIsComplete

\* A set reported as applied was stored by the vehicle: old values still under
\* way, of the read, of a notification or of another station, do not confirm
\* it (the comment in ParamSet._onValue).
AppliedMeansStored == kind = "set" => Set!AppliedMeansStored

\* What the mission node reports of a transfer is what the vehicle and the node
\* hold: a download, an upload and a clear, as the four properties above say.
MissionReportsAreTrue ==
  PromptDownloadIsMission /\ OnlyLastInDoubt /\ CompleteMeansHeld /\ CompleteMeansCleared

\* What the parameter node reports is what the vehicle holds.
ParameterReportsAreTrue == ListIsComplete /\ AppliedMeansStored

\* Nobody waits for nothing: a transfer that has not settled has a send that will,
\* or a timeout that will expire (_armTimeout behind every write), at every turn on
\* the way, also where a parameter read hands over to its set.
NeverStranded == Running => sends # <<>> \/ timer # NoTimer

\* "Out-of-order or duplicate; ignore": a download whose sends settle before its
\* timeout is over does not wait again for an item it has, whichever answer,
\* repetition or timeout comes late.
PromptNeverRegresses ==
  [][prompt /\ kind = "download" /\ Running => expectedSeq' >= expectedSeq]_vars

\* Every transfer ends with a result or an error, under a vehicle that does not
\* answer and under one that asks for the same items "forever" (MissionUpload,
\* about _itemSends).
TransferSettles == Running ~> ~Running
=============================================================================
