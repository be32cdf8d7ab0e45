------------------------------- MODULE MCCron -------------------------------
(***************************************************************************)
(* One cron task, with a history of what its failed checks left            *)
(* unreported.                                                             *)
(***************************************************************************)
EXTENDS Cron

VARIABLE unreported  \* the instants a failed check passed on to the next start
mcvars == <<vars, unreported>>

\* The check of a start failed: the cursor is left where it is.
CheckFailing == mode = "down" /\ mode' = "up" /\ present /\ cursor # 0 /\ cursor' # now

\* A start that finds no task, and a reload, begin anew: what a check left is dropped there.
BeginsAnew == cursor' = 0 \/ present' # present \/ \E has \in BOOLEAN : Reload(has)

MCInit == Init /\ unreported = {}
MCNext ==
  /\ Next
  /\ unreported' = IF CheckFailing THEN unreported \cup Upto(cursor, now)
                   ELSE IF BeginsAnew THEN {} ELSE unreported \ Reported'

MCSpec == MCInit /\ [][MCNext]_mcvars

\* "A failed check keeps the cursor, so the next start reports the miss again" (cron.ts, 73): a
\* start whose check does not fail reports all that failed checks before it could not.
NextStartReports ==
  [][mode = "down" /\ mode' = "up" /\ present /\ ~CheckFailing => unreported \subseteq Reported']_mcvars
=============================================================================
