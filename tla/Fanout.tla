------------------------------- MODULE Fanout -------------------------------
(***************************************************************************)
(* One message through the fan-out node (nodes/mavlink-ai-fanout.js): one  *)
(* command for a list of vehicles, run or sent by up to config.concurrency *)
(* workers at a time, paced, stopped by an error or by a redeploy, and     *)
(* reported per vehicle.  A step is one turn of the event loop; everything *)
(* the dispatcher does before it awaits again belongs to the turn.         *)
(***************************************************************************)
EXTENDS FanoutTargets, FiniteSets

VARIABLES config,   \* the settings of the node and of the message
          targets,  \* the system ids the message expands to (decorated)
          next,     \* nextIndex: how many targets have been dispatched
          inFlight, \* the targets whose worker has not settled
          class,    \* the result of each target
          aborted, closed,
          pc,       \* what the input handler awaits
          output    \* what the node has emitted

vars == <<config, targets, next, inFlight, class, aborted, closed, pc, output>>

Configs == [delivery : {"build", "send", "await"}, concurrency : Concurrencies,
            spacing : BOOLEAN, stopOnError : BOOLEAN, broadcast : BOOLEAN, dryRun : BOOLEAN]

Results == {"ok", "failed", "timedOut"}
Classes == Results \cup {"none", "skipped"}
Outputs == {"none", "error", "dryrun", "report", "messages"}
Awaits == {"input", "race", "gap", "pacing", "drain", "done"}

Errors == {t \in DOMAIN class : class[t] \in {"failed", "timedOut"}}

-----------------------------------------------------------------------------
(* The dispatcher *)

\* Launches up to k further targets.
Launched(k) == {t \in DOMAIN targets : next < t /\ t <= next + k}

Smaller(a, b) == IF a < b THEN a ELSE b

\* Fault: an error or a close is noticed at the next target only.
HaltsLate(isAborted, isClosed) == FALSE

Halts(isAborted, isClosed) == isAborted \/ isClosed

\* Fault: the whole list counts as skipped, the commanded ones included.
FinalClassAll(classes, from, skip) ==
  [t \in DOMAIN targets |-> IF skip THEN "skipped" ELSE classes[t]]

\* Stop-on-error marks the targets never dispatched as skipped.
FinalClass(classes, from, skip) ==
  [t \in DOMAIN targets |-> IF skip /\ t > from THEN "skipped" ELSE classes[t]]

\* The handler ends: a closed node says nothing.
Finish(classes, isAborted, isClosed) ==
  /\ pc' = "done"
  /\ class' = FinalClass(classes, next, isAborted /\ ~isClosed)
  /\ output' = IF isClosed THEN output ELSE "report"

\* Promise.allSettled(inFlight).
Drain(workers, classes, isAborted, isClosed) ==
  /\ next' = next
  /\ inFlight' = workers
  /\ \/ workers = {} /\ Finish(classes, isAborted, isClosed)
     \/ workers # {} /\ pc' = "drain" /\ class' = classes /\ UNCHANGED output

\* What the dispatcher awaits once it has launched k targets.
Awaited(workers, launchedUpTo) ==
  CASE launchedUpTo = Len(targets)                  -> "drain"
    [] /\ launchedUpTo < Len(targets)
       /\ Cardinality(workers) >= config.concurrency -> "race"
    [] OTHER                                         -> "gap"

Launch(k, workers, classes) ==
  /\ next' = next + k
  /\ inFlight' = workers \cup Launched(k)
  /\ class' = classes
  /\ pc' = Awaited(workers \cup Launched(k), next + k)
  /\ UNCHANGED output

\* The dispatcher looks at the pool: free workers are used at once, one target
\* at a time and after a gap when dispatches are paced.
Dispatch(workers, classes, isAborted, isClosed) ==
  IF Halts(isAborted, isClosed) \/ next = Len(targets)
  THEN Drain(workers, classes, isAborted, isClosed)
  ELSE IF Cardinality(workers) >= config.concurrency
  THEN Launch(0, workers, classes)
  ELSE IF ~config.spacing
  THEN Launch(Smaller(config.concurrency - Cardinality(workers), Len(targets) - next), workers, classes)
  ELSE IF next = 0
  THEN Launch(1, workers, classes)
  ELSE /\ pc' = "gap" /\ inFlight' = workers /\ class' = classes
       /\ UNCHANGED <<next, output>>

\* A worker that settles wakes the dispatcher, unless it waits for the gap.
Wake(workers, classes, isAborted, isClosed) ==
  CASE pc = "race"  -> Dispatch(workers, classes, isAborted, isClosed)
    [] pc = "drain" -> Drain(workers, classes, isAborted, isClosed)
    [] OTHER        -> /\ inFlight' = workers /\ class' = classes
                       /\ UNCHANGED <<next, pc, output>>

-----------------------------------------------------------------------------
(* The turns *)

Refused ==
  \/ ~config.broadcast /\ ~WellFormed(targets)
  \/ config.broadcast /\ ~config.dryRun /\ config.delivery = "await"

\* The handler ends before a target is commanded.
EndsEarly ==
  /\ Refused \/ config.dryRun
  /\ output' = IF Refused THEN "error" ELSE "dryrun"
  /\ pc' = "done"
  /\ UNCHANGED <<next, inFlight, class>>

\* Build: the messages leave in one batch, or one by one.
Emits ==
  /\ config.delivery = "build"
  /\ output' = "messages"
  /\ IF config.spacing /\ Len(targets) > 1 THEN next' = 1 /\ pc' = "pacing"
                                           ELSE next' = Len(targets) /\ pc' = "done"
  /\ UNCHANGED <<inFlight, class>>

\* The input handler up to its first await.
Input ==
  /\ pc = "input" /\ ~closed
  /\ \/ EndsEarly
     \/ /\ ~Refused /\ ~config.dryRun
        /\ Emits \/ (config.delivery # "build" /\ Dispatch({}, class, aborted, closed))
  /\ UNCHANGED <<config, targets, aborted, closed>>

Aborts(classes, workers) == config.stopOnError /\ \E t \in DOMAIN classes : classes[t] \in {"failed", "timedOut"}

\* Workers settle, in await mode with the outcome of a command workflow, in
\* send mode with that of connection.send(); several may settle in one turn.
Settle(workers, result) ==
  LET classes == [t \in DOMAIN targets |-> IF t \in workers THEN result[t] ELSE class[t]]
  IN  /\ workers # {} /\ workers \subseteq inFlight
      /\ config.delivery = "send" => \A t \in workers : result[t] # "timedOut"
      /\ aborted' = Aborts(classes, inFlight \ workers)
      /\ Wake(inFlight \ workers, classes, aborted', closed)
      /\ UNCHANGED <<config, targets, closed>>

\* spacingMs have passed.
GapEnds ==
  /\ pc = "gap"
  /\ IF Halts(aborted, closed) THEN Drain(inFlight, class, aborted, closed)
                              ELSE Launch(1, inFlight, class)
  /\ UNCHANGED <<config, targets, aborted, closed>>

\* The next message of a paced build, unless the node has been closed.
PaceEnds ==
  /\ pc = "pacing"
  /\ next' = IF closed THEN next ELSE next + 1
  /\ pc' = IF closed \/ next' = Len(targets) THEN "done" ELSE "pacing"
  /\ UNCHANGED <<config, targets, inFlight, class, aborted, closed, output>>

\* The close handler: every workflow under way is aborted and fails at once; a
\* send that is already queued goes its way.
Close ==
  /\ ~closed
  /\ closed' = TRUE
  /\ UNCHANGED <<config, targets>>
  /\ IF config.delivery = "await" /\ inFlight # {}
     THEN LET classes == [t \in DOMAIN targets |-> IF t \in inFlight THEN "failed" ELSE class[t]]
          IN  aborted' = Aborts(classes, {}) /\ Wake({}, classes, aborted', TRUE)
     ELSE UNCHANGED <<next, inFlight, class, aborted, pc, output>>

-----------------------------------------------------------------------------
Start(settings, list) ==
  /\ config = settings
  /\ targets = Expand(settings.broadcast, list)
  /\ next = 0
  /\ inFlight = {}
  /\ class = [t \in DOMAIN targets |-> "none"]
  /\ aborted = FALSE
  /\ closed = FALSE
  /\ pc = "input"
  /\ output = "none"

Init == \E settings \in Configs, list \in TargetLists : Start(settings, list)

Works == \E workers \in SUBSET inFlight : \E result \in [workers -> Results] : Settle(workers, result)

Next == Input \/ Works \/ GapEnds \/ PaceEnds \/ Close

Spec == Init /\ [][Next]_vars

\* A command workflow settles (CommandWorkflow!EveryRunSettles), so does a send
\* (OutboundQueue!ImplementsSendService), and a delay ends.
Fairness == WF_vars(Works) /\ WF_vars(GapEnds) /\ WF_vars(PaceEnds)

-----------------------------------------------------------------------------
(* Properties *)

TypeOK ==
  /\ config \in Configs
  /\ targets \in Seq(Sysids \cup {Broadcast})
  /\ next \in 0..Len(targets)
  /\ inFlight \subseteq DOMAIN targets
  /\ class \in [DOMAIN targets -> Classes]
  /\ aborted \in BOOLEAN /\ closed \in BOOLEAN
  /\ pc \in Awaits
  /\ output \in Outputs

\* "The caller sees exactly which vehicles were not commanded": a report holds
\* one result for each vehicle; the skipped ones are those behind the last that
\* was dispatched, and there are some only because an earlier one failed and
\* the node stops on errors; nothing is reported while a worker still runs.
ReportAccounts ==
  output = "report" =>
    /\ \A t \in DOMAIN targets : class[t] # "none"
    /\ \A t \in DOMAIN targets : class[t] = "skipped" <=> t > next
    /\ next < Len(targets) => config.stopOnError /\ Errors # {}
    /\ \A i, j \in DOMAIN targets : targets[i] = targets[j] => i = j

\* "A closed node stops fanning out to the remaining targets" and says nothing
\* more; with stop-on-error nothing is commanded after the first error,
\* whatever the workers and the gap were doing when it came.
HaltsDispatch ==
  [][/\ aborted \/ closed \/ (config.stopOnError /\ Errors # {}) => next' = next
     /\ closed => output' = output]_vars

\* No more than config.concurrency commands of a message are under way.
WithinConcurrency == Cardinality(inFlight) <= config.concurrency

\* The dispatcher awaits workers only where there are some: Promise.race of an
\* empty pool never settles, and a close that aborts every workflow under way
\* empties it.
AwaitsWorkers == pc \in {"race", "drain"} => inFlight # {}

\* Every message is answered: the input handler calls done(), also when the
\* node is closed meanwhile.
Answered == pc # "input" ~> pc = "done"
=============================================================================
