---------------------------- MODULE SendService ----------------------------
(***************************************************************************)
(* What a connection promises to a caller of send(): the promise it        *)
(* returned settles exactly once, in whatever order the frames go out, and *)
(* it does settle.  The workflows of this package rest on nothing else:    *)
(* they arm their timeouts when the promise resolves.                      *)
(***************************************************************************)
CONSTANT Sends
VARIABLE promise

States == {"idle", "pending", "resolved", "rejected"}

Pending == {s \in Sends : promise[s] = "pending"}

\* A call: accepted or refused on the spot, and possibly taking the place of
\* sends that are told they succeeded.
Issue(s) ==
  /\ s \notin Pending
  /\ \E superseded \in SUBSET Pending, answer \in {"pending", "rejected"} :
       promise' = [x \in Sends |-> IF x = s THEN answer
                                   ELSE IF x \in superseded THEN "resolved" ELSE promise[x]]

\* Some pending promises settle alike: one written frame, several evicted
\* ones, or all of them at teardown.
Settle(settled) ==
  /\ settled # {}
  /\ settled \subseteq Pending
  /\ \E answer \in {"resolved", "rejected"} :
       promise' = [x \in Sends |-> IF x \in settled THEN answer ELSE promise[x]]

Init == promise = [s \in Sends |-> "idle"]

Next == (\E s \in Sends : Issue(s)) \/ (\E settled \in SUBSET Sends : Settle(settled))

Spec == Init /\ [][Next]_promise

FairSpec ==
  /\ Spec
  /\ \A s \in Sends :
       WF_promise(\E settled \in SUBSET Sends : s \in settled /\ Settle(settled))
=============================================================================
