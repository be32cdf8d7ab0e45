----------------------------- MODULE Retention -----------------------------
(***************************************************************************)
(* Retention (packages/core/src/retention.ts, store/retention.ts): a pass  *)
(* deletes old finished runs with their ledger rows, old ledger rows, old  *)
(* dispatched events nothing refers to, and stale workspaces, in short     *)
(* transactions with everything else going on between them.  All its       *)
(* cutoffs come from the clock read when the pass began.                   *)
(*                                                                         *)
(* A run and the event that triggered it have the same name.  Attempts,    *)
(* waits and transcripts go with their run.                                *)
(***************************************************************************)
EXTENDS Naturals, FiniteSets

CONSTANTS
  Runs,
  Agents,                      \* the runs that make a workspace
  DayLength,                   \* ticks in a UTC day
  KeepRuns, KeepLedger, KeepEvents, KeepSpaces,  \* the policy, in ticks
  Batch,                       \* BATCH: rows a transaction deletes
  MaxRows,                     \* bound: the calls a run pays for
  MaxTime                      \* bound: the clock

\* The schema's own conditions on the policy are among these (config/retention.ts).
RetentionAssumption ==
  /\ IsFiniteSet(Runs) /\ Agents \subseteq Runs /\ {DayLength, Batch} \subseteq Nat \ {0}
  /\ {KeepRuns, KeepLedger, KeepEvents, KeepSpaces, MaxRows, MaxTime} \subseteq Nat
  /\ KeepLedger >= DayLength /\ KeepRuns >= KeepLedger

VARIABLES
  now,
  event,   \* of an event: whether it is stored, and since when
  run,     \* of a run: its row, when it ended, whether it has a batch in flight
  ledger,  \* ledger rows; "late": written after the run had ended
  space,   \* of a run's directory: whether it is there, and holds unpushed commits
  pass     \* the pass in flight: its step, its clock, the directories left, the one it checks

vars == <<now, event, run, ledger, space, pass>>

NoPass == [step |-> "idle", at |-> 0, dirs |-> {}, checks |-> {}]
Active(r) == run[r].status = "active"
HasRow(r) == run[r].status # "none"
RowsOf(r) == {x \in ledger : x.run = r}
Day(t) == t \div DayLength

TypeOK ==
  /\ now \in 0 .. MaxTime
  /\ \A r \in Runs : /\ event[r].state \in {"none", "new", "dispatched", "purged"}
                     /\ run[r].status \in {"none", "active", "ended"}
                     /\ space[r] \in {"none", "clean", "unpushed"}
  /\ pass.step \in {"idle", "runs", "ledger", "events", "spaces"} /\ pass.checks \subseteq Runs

Init ==
  /\ now = 0 /\ ledger = {} /\ pass = NoPass
  /\ event = [r \in Runs |-> [state |-> "none", ts |-> 0]]
  /\ run = [r \in Runs |-> [status |-> "none", ended |-> 0, batch |-> FALSE]]
  /\ space = [r \in Runs |-> "none"]

-----------------------------------------------------------------------------
(***************************************************************************)
(* What goes on meanwhile                                                  *)
(***************************************************************************)

Publish(r) ==
  /\ event[r].state = "none"
  /\ event' = [event EXCEPT ![r] = [state |-> "new", ts |-> now]]
  /\ UNCHANGED <<now, run, ledger, space, pass>>

\* The dispatcher passes the event; it starts the run, or nothing.
Dispatch(r, starts) ==
  /\ event[r].state = "new"
  /\ event' = [event EXCEPT ![r].state = "dispatched"]
  /\ run' = IF starts THEN [run EXCEPT ![r].status = "active"] ELSE run
  /\ UNCHANGED <<now, ledger, space, pass>>

Row(r, late) == [run |-> r, ts |-> now, late |-> late]

\* An active run pays for a call, submits a batch, makes its workspace or commits in it.
Work(r) ==
  /\ Active(r)
  /\ \/ /\ Cardinality(RowsOf(r)) < MaxRows
        /\ ledger' = ledger \cup {Row(r, FALSE)} /\ UNCHANGED <<run, space>>
     \/ run' = [run EXCEPT ![r].batch = TRUE] /\ UNCHANGED <<ledger, space>>
     \/ /\ r \in Agents
        /\ \E s \in {"clean", "unpushed"} : space' = [space EXCEPT ![r] = s]
        /\ UNCHANGED <<ledger, run>>
  /\ UNCHANGED <<now, event, pass>>

\* It ends, perhaps while its batch is still in flight; a failed one takes its workspace along.
End(r) ==
  /\ Active(r)
  /\ run' = [run EXCEPT ![r].status = "ended", ![r].ended = now]
  /\ \/ UNCHANGED space
     \/ space[r] # "none" /\ space' = [space EXCEPT ![r] = "none"]
  /\ UNCHANGED <<now, event, ledger, pass>>

\* The poller settles a batch: the bill of a run whose row is gone is not ledgered.
SettleBatch(r) ==
  /\ run[r].batch
  /\ run' = [run EXCEPT ![r].batch = FALSE]
  /\ ledger' = IF HasRow(r) THEN ledger \cup {Row(r, ~Active(r))} ELSE ledger
  /\ UNCHANGED <<now, event, space, pass>>

\* A later run pushes the commits of an ended one.
Push(r) ==
  /\ space[r] = "unpushed" /\ ~Active(r)
  /\ space' = [space EXCEPT ![r] = "clean"]
  /\ UNCHANGED <<now, event, run, ledger, pass>>

Tick == now < MaxTime /\ now' = now + 1 /\ UNCHANGED <<event, run, ledger, space, pass>>

-----------------------------------------------------------------------------
(***************************************************************************)
(* The pass                                                                *)
(***************************************************************************)

\* run(): one pass at a time.
StartPass ==
  /\ pass.step = "idle"
  /\ pass' = [pass EXCEPT !.step = "runs", !.at = now]
  /\ UNCHANGED <<now, event, run, ledger, space>>

\* Mutant: the cutoff of a kind is a tick short.
OlderOrAsOld(t, keep) == t + keep <= pass.at + 1

\* Older than the policy keeps, by the clock of the pass.
Older(t, keep) == t + keep < pass.at

\* drain(): a transaction deletes S, a batch of what is to go, and the pass leaves its step
\* once that was less than a full batch.
ABatch(S, doomed) ==
  S \subseteq doomed /\ Cardinality(S) <= Batch /\ (Cardinality(S) < Batch => S = doomed)
Goes(S, step) == pass' = IF Cardinality(S) < Batch THEN [pass EXCEPT !.step = step] ELSE pass

\* listFinishedBefore(): the oldest, without those that have a batch in flight.
Finished == {r \in Runs : run[r].status = "ended" /\ Older(run[r].ended, KeepRuns) /\ ~run[r].batch}
Oldest == {r \in Finished :
             Cardinality({q \in Finished : run[q].ended < run[r].ended}) < Batch}

PurgeRuns ==
  /\ pass.step = "runs"
  /\ \E S \in SUBSET Oldest :
       /\ ABatch(S, Oldest)
       /\ ledger' = {x \in ledger : x.run \notin S}
       /\ run' = [r \in Runs |-> IF r \in S THEN [run[r] EXCEPT !.status = "none"] ELSE run[r]]
       /\ Goes(S, "ledger")
  /\ UNCHANGED <<now, event, space>>

\* deleteBefore(): never a row of a run still active.
Expendable == {x \in ledger : Older(x.ts, KeepLedger) /\ ~Active(x.run)}

PurgeLedger ==
  /\ pass.step = "ledger"
  /\ \E S \in SUBSET Expendable :
       /\ ABatch(S, Expendable)
       /\ ledger' = ledger \ S
       /\ Goes(S, "events")
  /\ UNCHANGED <<now, event, run, space>>

\* Mutant: an event goes with its age, whatever refers to it.
UnneededByAge == {r \in Runs : event[r].state = "dispatched" /\ Older(event[r].ts, KeepEvents)}

\* deleteUnreferencedBefore(): dispatched, and no run points at it.
Unneeded ==
  {r \in Runs : event[r].state = "dispatched" /\ Older(event[r].ts, KeepEvents) /\ ~HasRow(r)}

Workspaces == {r \in Runs : space[r] # "none"}

\* The last step of the store's half: the directories are listed next.
PurgeEvents ==
  /\ pass.step = "events"
  /\ \E S \in SUBSET Unneeded :
       /\ ABatch(S, Unneeded)
       /\ event' = [r \in Runs |-> IF r \in S THEN [event[r] EXCEPT !.state = "purged"]
                                   ELSE event[r]]
       /\ pass' = IF Cardinality(S) < Batch
                  THEN [pass EXCEPT !.step = "spaces", !.dirs = Workspaces] ELSE pass
  /\ UNCHANGED <<now, run, ledger, space>>

\* stale(): by the end of its run, or by the age of the directory when the run is gone.
Stale(r) == IF HasRow(r) THEN ~Active(r) /\ Older(run[r].ended, KeepSpaces) ELSE TRUE

\* The sweep looks at a directory and, if it is stale, asks git for unpushed commits.
LookAt(r) ==
  /\ pass.step = "spaces" /\ r \in pass.dirs /\ pass.checks = {}
  /\ pass' = [pass EXCEPT !.dirs = @ \ {r}, !.checks = {d \in {r} : Stale(d)}]
  /\ UNCHANGED <<now, event, run, ledger, space>>

\* unpushedCommits(): "rev-parse" failing for any reason reads as a branch that is gone,
\* and only "rev-list" failing as a count git cannot tell.
MayHoldWork(r, git) ==
  CASE git = "answers" -> space[r] = "unpushed"
    [] git = "revListFails" -> TRUE
    [] git = "revParseFails" -> FALSE

Removed(r) == [space EXCEPT ![r] = "none"]

\* The directory and its branch go, unless they may hold commits.
Swept(r, git) ==
  /\ r \in pass.checks
  /\ space' = IF MayHoldWork(r, git) THEN space ELSE Removed(r)
  /\ pass' = [pass EXCEPT !.checks = {}]
  /\ UNCHANGED <<now, event, run, ledger>>

EndPass ==
  /\ pass.step = "spaces" /\ pass.dirs = {} /\ pass.checks = {}
  /\ pass' = NoPass
  /\ UNCHANGED <<now, event, run, ledger, space>>

\* A transaction throws, or the process dies: the rest is left for the next pass.
PassFails ==
  /\ pass.step # "idle" /\ pass' = NoPass
  /\ UNCHANGED <<now, event, run, ledger, space>>

Next ==
  \/ \E r \in Runs : \/ Publish(r) \/ Work(r) \/ End(r) \/ SettleBatch(r) \/ Push(r) \/ LookAt(r)
                     \/ \E starts \in BOOLEAN : Dispatch(r, starts)
                     \/ \E git \in {"answers", "revListFails", "revParseFails"} : Swept(r, git)
  \/ Tick \/ StartPass \/ PurgeRuns \/ PurgeLedger \/ PurgeEvents \/ EndPass \/ PassFails

Spec == Init /\ [][Next]_vars

-----------------------------------------------------------------------------

\* Nothing still needed is deleted, whatever a pass decided earlier: an active run keeps the
\* event it came from, a run with a batch in flight keeps its row so that the bill can be
\* ledgered, and an event not dispatched yet stays.
NeededStays ==
  \A r \in Runs : /\ HasRow(r) => event[r].state = "dispatched"
                  /\ run[r].batch => HasRow(r)

\* Deleting never lifts a cap: a ledger row goes only when its day is over and its run has
\* ended, except the bill of a batch that outlived its run (config/retention.ts, 34-43).
CapStaysCounted ==
  \A x \in ledger \ ledger' : x.late \/ (Day(x.ts) < Day(now) /\ ~Active(x.run))
CapsKeptByRetention == [][CapStaysCounted]_vars

\* The sweep never takes a directory of an active run, or one with commits not pushed: "when
\* git cannot tell, keeping the directory is the side that loses nothing" (retention.ts, 173).
WorkKept ==
  \A r \in pass.checks : space'[r] = "none" => ~Active(r) /\ space[r] # "unpushed"
WorkKeptByRetention == [][WorkKept]_vars
=============================================================================
