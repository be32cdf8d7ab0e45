-------------------------------- MODULE Cron --------------------------------
(***************************************************************************)
(* The cron scheduler (packages/core/src/scheduler/cron.ts) and its timer  *)
(* (scheduler/schedule.ts, armSchedule), for one cron task: ticks, the     *)
(* cursor that says up to when they are accounted for, and what a start    *)
(* reports as missed.  Tasks share nothing.                                *)
(*                                                                         *)
(* A schedule is the set of its instants; which they are (the pattern, the *)
(* zone, clocks going back) is left to Schedule.next.  Any call of the     *)
(* store may fail, and the process may die between two of them.            *)
(***************************************************************************)
EXTENDS Naturals, FiniteSets, FiniteSetsExt

CONSTANTS
  Due,        \* the instants of the schedule
  RunOnce,    \* whether the task says "missed: run_once"
  MaxMissed,  \* MAX_MISSED
  MaxTime     \* bound: the clock

CronAssumption ==
  /\ MaxTime \in Nat /\ Due \subseteq 1 .. MaxTime
  /\ MaxMissed \in Nat \ {0} /\ RunOnce \in BOOLEAN

VARIABLES
  now,      \* Date.now()
  mode,     \* whether the daemon runs
  present,  \* whether the configuration has the task
  next,     \* the instant the armed timer waits for, or 0
  cursor,   \* the task's cursor, or 0
  ticked,   \* the instants with a cron.tick event
  caughtUp, \* those among them published as a catch-up
  missed,   \* the cron.missed events: instants by the first one, the dedup key
  since,    \* when the task was first armed, of late
  excused   \* instants the code knowingly passes over

vars == <<now, mode, present, next, cursor, ticked, caughtUp, missed, since, excused>>

Upto(a, b) == {i \in Due : a < i /\ i <= b}

\* Schedule.next(): 0 when the schedule never runs again.
NextAfter(t) == IF Upto(t, MaxTime) = {} THEN 0 ELSE Min(Upto(t, MaxTime))

\* Mutant: the report ends where the count does.
LastCounted(until, known) == known

\* lastAtOrBefore(): a binary search for the latest instant up to "until".  Every turn of its
\* loop brings "last" and "hi" nearer, so "until" turns are all it can take.
IsLast(until, s) == NextAfter(s.last) = 0 \/ NextAfter(s.last) > until
Halve(until, s) ==
  LET mid == (s.last + s.hi) \div 2
  IN IF IsLast(until, s) THEN s
     ELSE IF NextAfter(mid) # 0 /\ NextAfter(mid) <= until THEN [s EXCEPT !.last = NextAfter(mid)]
     ELSE [s EXCEPT !.hi = mid]
LastFrom(until, known) ==
  LET turn[n \in 0 .. until] ==
        IF n = 0 THEN [last |-> known, hi |-> until] ELSE Halve(until, turn[n - 1])
  IN turn[until].last

\* The instants checkMissed() walks, and the last it reports.
Walked == {i \in Upto(cursor, now) : Cardinality(Upto(cursor, i)) <= MaxMissed}
LastMissed == IF Cardinality(Walked) = MaxMissed THEN LastFrom(now, Max(Walked)) ELSE Max(Walked)

Reported == UNION {missed[f] : f \in Due}

Init ==
  /\ now = 0 /\ mode = "down" /\ present = TRUE /\ next = 0 /\ cursor = 0
  /\ ticked = {} /\ caughtUp = {} /\ missed = [f \in Due |-> {}]
  /\ since = 0 /\ excused = {}

TypeOK ==
  /\ now \in 0 .. MaxTime /\ mode \in {"down", "up"} /\ present \in BOOLEAN
  /\ next \in Due \cup {0} /\ cursor \in 0 .. MaxTime /\ since \in 0 .. MaxTime
  /\ caughtUp \subseteq ticked /\ ticked \subseteq Due /\ excused \subseteq Due
  /\ missed \in [Due -> SUBSET Due]

-----------------------------------------------------------------------------

\* arm(), with the cursor moved to now or left where it is.
Arm(move) ==
  /\ next' = NextAfter(now)
  /\ cursor' = IF move THEN now ELSE cursor
  /\ since' = IF cursor = 0 THEN now ELSE since

\* A failed check leaves the cursor: its instants are reported by the next start only if
\* no tick and no reload moves the cursor first.
CheckFailed ==
  /\ Arm(FALSE)
  /\ excused' = excused \cup Upto(cursor, now)

\* cron.missed, deduplicated by its first instant.
ReportMissed ==
  missed' = [missed EXCEPT ![Min(Walked)] =
    IF @ = {} THEN Upto(cursor, LastMissed) ELSE @]

\* checkMissed() found nothing, or published all it had to.  A report that repeats the one
\* of a failed check is a duplicate: what was missed since is not in it.
CheckDone ==
  /\ IF cursor = 0 \/ Walked = {} THEN UNCHANGED <<ticked, caughtUp, missed, excused>>
     ELSE /\ ReportMissed
          /\ excused' = IF missed[Min(Walked)] # {} THEN excused \cup Upto(cursor, now) ELSE excused
          /\ IF RunOnce THEN /\ ticked' = ticked \cup {LastMissed}
                             /\ caughtUp' = caughtUp \cup {LastMissed}
             ELSE UNCHANGED <<ticked, caughtUp>>
  /\ Arm(TRUE)

\* The store refused cron.missed, or the catch-up tick after it.
CheckFails ==
  /\ cursor # 0 /\ Walked # {}
  /\ \/ UNCHANGED missed
     \/ RunOnce /\ ReportMissed
  /\ CheckFailed
  /\ UNCHANGED <<ticked, caughtUp>>

\* start() of the daemon: a task that is gone loses its cursor.
Start ==
  /\ mode = "down" /\ mode' = "up"
  /\ IF present THEN CheckDone \/ CheckFails
     ELSE /\ cursor' = 0 /\ next' = 0
          /\ UNCHANGED <<ticked, caughtUp, missed, since, excused>>
  /\ UNCHANGED <<now, present>>

\* reload(): timers stop and are armed afresh; an instant that is due but has not fired
\* is passed over, as is one a late timer skipped.
Reload(has) ==
  /\ mode = "up" /\ present' = has
  /\ excused' = excused \cup (IF next = 0 THEN {} ELSE Upto(next - 1, now))
  /\ IF has THEN Arm(TRUE)
     ELSE cursor' = 0 /\ next' = 0 /\ UNCHANGED since
  /\ UNCHANGED <<now, mode, ticked, caughtUp, missed>>

\* fire(): instants between the one that fired and now are not replayed.
FireNext == NextAfter(Max({next, now}))

\* Mutant: the tick is published before the cursor moves.
TickFirst ==
  \/ cursor' = next /\ ticked' = ticked \cup {next} /\ mode' = mode
  \/ cursor' = cursor /\ ticked' = ticked \cup {next} /\ mode' = "down"

\* onTick(): the cursor, then the event; either may fail, and the process may die between.
OnTick ==
  \/ cursor' = next /\ ticked' = ticked \cup {next} /\ mode' = mode
  \/ cursor' = next /\ ticked' = ticked /\ mode' \in {mode, "down"}
  \/ cursor' = cursor /\ ticked' = ticked /\ mode' = mode

Fire ==
  /\ mode = "up" /\ next # 0 /\ now >= next
  /\ OnTick
  /\ next' = IF mode' = "down" THEN 0 ELSE FireNext
  /\ excused' = excused \cup Upto(next, now) \cup (IF next \in ticked' THEN {} ELSE {next})
  /\ UNCHANGED <<now, present, caughtUp, missed, since>>

\* The configuration changes while the daemon is down.
Edit ==
  /\ mode = "down" /\ present' = ~present
  /\ UNCHANGED <<now, mode, next, cursor, ticked, caughtUp, missed, since, excused>>

\* A stop or a crash.
Stop ==
  /\ mode = "up" /\ mode' = "down" /\ next' = 0
  /\ UNCHANGED <<now, present, cursor, ticked, caughtUp, missed, since, excused>>

Tick ==
  /\ now < MaxTime /\ now' = now + 1
  /\ UNCHANGED <<mode, present, next, cursor, ticked, caughtUp, missed, since, excused>>

Next == \/ Start \/ Fire \/ Edit \/ Stop \/ Tick
        \/ \E has \in BOOLEAN : Reload(has)

Spec == Init /\ [][Next]_vars

-----------------------------------------------------------------------------

\* No instant of a downtime falls between a tick and a miss: each one the cursor has passed
\* since the task was armed has a tick or is reported, over any number of stops and starts, the
\* cap of a count and the catch-up (cron.ts, onTick and checkMissed).  "excused" takes out what
\* anything else makes the code pass over: the instants a late timer skips, a tick whose event
\* was refused or died with the process, those of a check that failed or that repeats the report
\* of one, and those due at a reload.  What becomes of a failed check's is NextStartReports.
NoInstantForgotten ==
  \A i \in Due : since < i /\ i <= cursor => i \in ticked \cup Reported \cup excused

\* No instant is both run and reported as missed, except the one a catch-up ran.
TickedOrMissed == ticked \cap Reported \subseteq caughtUp
=============================================================================
