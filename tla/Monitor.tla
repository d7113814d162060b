------------------------------- MODULE Monitor -------------------------------
(***************************************************************************)
(* A Channel with a task that waits for a status of it: ActorOps::monitor  *)
(* and the waits built on it.                                              *)
(*                                                                         *)
(* The watcher subscribes to the status observer, and then alternates      *)
(* between reading the status and awaiting a change.  A subscription does  *)
(* not queue the changes: awaiting it yields the latest status once there  *)
(* was a change since the last one it yielded.                             *)
(***************************************************************************)
EXTENDS Channel

CONSTANT Waits    \* the waits the watcher may begin

ASSUME MonitorAssumption ==
  Waits \subseteq {"exit", "init", "running", "accepts", "suspended"}

VARIABLE watch    \* the watcher: where it is, its wait, a change not yielded yet

watchedVars == <<vars, watch>>

\* No wait has begun, or the last one returned.
NotWatching == [at |-> "off", wait |-> "none", news |-> FALSE]

MonitorInit == Init /\ watch = NotWatching

\* Whether check_for returns Some for the status.  An exit only ends the wait
\* for the initialization if the channel was ever spawned on.  "suspended"
\* stands for the kinds that monitor_any is asked for.
Resolves(wait) ==
  CASE wait = "exit"      -> status = "Exited"
    [] wait = "init"      -> status = "Running" \/ (status = "Exited" /\ spawns # <<>>)
    [] wait = "running"   -> status = "Running"
    [] wait = "accepts"   -> status \in AcceptsMessages
    [] wait = "suspended" -> status = "Suspended"

\* monitor subscribes before it reads anything,
Subscribe(wait) ==
  /\ watch.at = "off"
  /\ watch' = [at |-> "reading", wait |-> wait, news |-> FALSE]
  /\ UNCHANGED vars

\* reads the status, and awaits the subscription if that is not it.
ReadStatus ==
  /\ watch.at = "reading"
  /\ watch' = IF Resolves(watch.wait) THEN NotWatching ELSE [watch EXCEPT !.at = "awaiting"]
  /\ UNCHANGED vars

\* Mutation of Hear: the status that comes is not checked, and the loop does
\* not read it again.
HearNothing ==
  /\ watch.at = "awaiting" /\ watch.news
  /\ watch' = [watch EXCEPT !.news = FALSE]
  /\ UNCHANGED vars

\* The subscription yields the status there is now, however many there were.
Hear ==
  /\ watch.at = "awaiting" /\ watch.news
  /\ watch' = IF Resolves(watch.wait) THEN NotWatching
              ELSE [watch EXCEPT !.at = "reading", !.news = FALSE]
  /\ UNCHANGED vars

\* update_status tells the subscribers of every change.
Tell ==
  watch' = [watch EXCEPT !.news = watch.at # "off" /\ (@ \/ status' # status)]

MonitorNext ==
  \/ Next /\ Tell
  \/ \E wait \in Waits : Subscribe(wait)
  \/ ReadStatus
  \/ Hear

MonitorSpec == MonitorInit /\ [][MonitorNext]_watchedVars

\* The fairness of Channel; a watcher that was woken is polled.
FairMonitorSpec ==
  /\ MonitorSpec
  /\ \A r \in Runs : WF_watchedVars(Progress(r) /\ Tell)
  /\ WF_watchedVars(Sending /\ Tell)
  /\ WF_watchedVars(ReadStatus \/ Hear)

-----------------------------------------------------------------------------
(* Properties.                                                             *)

WatchTypeOK ==
  watch \in [at : {"off", "reading", "awaiting"},
             wait : Waits \cup {"none"},
             news : BOOLEAN]

\* A watcher that sleeps without a notification sleeps on a status that is not
\* the one it waits for: none comes between its read and its await unnoticed.
SleepsOnNoMatch ==
  watch.at = "awaiting" /\ ~watch.news => ~Resolves(watch.wait)

\* A wait returns if the status it is for stays: the change that brought it
\* reaches the watcher, however it falls between subscribing, reading and
\* awaiting.  (A status that does not stay may be missed.)
MonitorReturns ==
  \A wait \in Waits :
    (watch.wait = wait /\ Resolves(wait)) ~> (watch.at = "off" \/ ~Resolves(wait))
==============================================================================
