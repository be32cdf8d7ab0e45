---------------------------- MODULE ServiceProofs ---------------------------
(***************************************************************************)
(* Proofs about the core's own parts among those of Services, under the    *)
(* same letters: each is an instance with the constants and variables of   *)
(* its module, and each theorem is about that instance's specification     *)
(* alone.  Names that several of them use (run, lost) are declared once    *)
(* and stand for each one's own.                                           *)
(***************************************************************************)
EXTENDS Integers, Sequences, FiniteSets, FiniteSetTheorems, WellFoundedInduction, TLAPS

CONSTANTS
  Runs, Calls, BadCalls, MaxToolCalls, MaxAttempts, RunCap, DailyCap, MaxCost,  \* Agent
  HostConns,  \* Host
  Launchers,  \* Process
  Addresses, MaxRequests,  \* Scrape
  Conns, Connectors, Ops, Grants, Serves,  \* Bridge
  Versions, Valid, Keys, MaxQueue, Builtin,  \* Reload
  MaxPrinted,  \* Shell
  Names, Exact, Below, ProxyConnections, MaxOwed,  \* NetProxy
  Agents, DayLength, KeepRuns, KeepLedger, KeepEvents, KeepSpaces, Batch, MaxRows,
  MaxTime,  \* Retention
  StepKinds, SequenceAttempts, MaxLosses,  \* Sequence
  Reqs, ApiTries, Bodies, Asks,  \* Api
  Due, RunOnce, MaxMissed, CronTime,  \* Cron
  Keep, SkipFirst, MaxItems, MaxEmissions,  \* Poller
  Daemons,  \* Daemon
  Clients, Forced,  \* Backup
  Releases  \* Upgrade

VARIABLES
  phase, attempt, side, session, calls, foul, ledger, real,  \* Agent
  sock, proc, waitsFor, current, generation, serving,  \* Host
  kind, alive, swept, ended, launch, aborted, stop, call, proxy, daemon,  \* Process
  wanted, held, others, queue, step, job, old, closed, served, lost,  \* Scrape
  bridge, run, serves, op, ran,  \* Bridge
  disk, turn, agents, conns, pollers, running, active, broken, life,  \* Reload
  mode, signal, runner, child, holds, output, outcome,  \* Shell
  server, client, target, upstream, reached, owed, counts, answers,  \* NetProxy
  now, event, space, pass,  \* Retention
  status, at, did, results, resume, progress, wait, effects,  \* Sequence
  ask, req, made, unsure, task, conn,  \* Api
  present, next, cursor, ticked, caughtUp, missed, since, excused,  \* Cron
  armed, flight, seen, stored, emitted, seeded, steady,  \* Poller
  core, accepts, file, hup, refused, rival,  \* Daemon
  handler, copy, line, partial, dest, older, stuck,  \* Backup
  build, schema, copies, back  \* Upgrade

G == INSTANCE Agent
H == INSTANCE Host WITH Conns <- HostConns
X == INSTANCE Process WITH Kinds <- Launchers
Y == INSTANCE Scrape
B == INSTANCE Bridge
A == INSTANCE Reload
J == INSTANCE Shell
N == INSTANCE NetProxy WITH MaxConnections <- ProxyConnections
R == INSTANCE Retention
Q == INSTANCE Sequence WITH Kinds <- StepKinds, MaxAttempts <- SequenceAttempts
K == INSTANCE Api WITH MaxTries <- ApiTries
C == INSTANCE Cron WITH MaxTime <- CronTime
P == INSTANCE Poller
D == INSTANCE Daemon
U == INSTANCE Backup
V == INSTANCE Upgrade

-----------------------------------------------------------------------------
(***************************************************************************)
(* Agent: what a session may do and what it costs                          *)
(***************************************************************************)
InTurns == {"turn", "restarting", "restarted"}
Phases == {"start", "opening", "opened", "gates", "succeeded", "failed"} \cup InTurns
Reasons == {"none", "budget", "tool_calls", "policy", "abort"}

\* The instance's notions of finite set and cardinality are this module's.
LEMMA SameFiniteSet == ASSUME NEW S PROVE G!IsFiniteSet(S) <=> IsFiniteSet(S)
BY DEF IsFiniteSet, G!IsFiniteSet

LEMMA SameCardinality == ASSUME NEW S PROVE G!Cardinality(S) = Cardinality(S)
BY DEF Cardinality, G!Cardinality

LEMMA CallsAreFinite ==
  ASSUME G!AgentAssumption, NEW S \in SUBSET Calls
  PROVE  IsFiniteSet(S) /\ Cardinality(S) \in Nat
<1>1. IsFiniteSet(Calls)
  BY SameFiniteSet DEF G!AgentAssumption
<1> QED BY <1>1, FS_Subset, FS_CardinalityType

Sessions == [turn : Nat, seen : Nat, charged : Nat, cost : Nat, cancel : Reasons]
CallRecords ==
  [counted : SUBSET Calls, n : Nat, judged : SUBSET Calls, allowed : SUBSET Calls]

AgentTypes ==
  /\ phase \in [Runs -> Phases]
  /\ side \in [Runs -> {"none", "idle", "working", "broken"}]
  /\ session \in [Runs -> Sessions]
  /\ calls \in [Runs -> CallRecords]
  /\ attempt \in [Runs -> 1 .. MaxAttempts] /\ foul \in [Runs -> BOOLEAN]
  /\ ledger \in [Runs -> Nat] /\ real \in [Runs -> Nat]

\* In a turn the ledger lacks what the session cost since it was charged last.
Accounts(r) ==
  /\ phase[r] \notin InTurns => ledger[r] = real[r]
  /\ phase[r] \in {"opening", "opened"} => session[r] = G!NewSession
  /\ phase[r] \in InTurns =>
       /\ session[r].charged <= session[r].cost
       /\ real[r] = ledger[r] + (session[r].cost - session[r].charged)
       /\ session[r].seen \in {0, session[r].cost}
       /\ session[r].seen = 0 => session[r].cost = session[r].charged

\* A turn goes on past a limit only to be stopped; what comes after it kept to them.
Watched(r) ==
  /\ side[r] = "working" => phase[r] \in {"turn", "restarting"}
  /\ phase[r] \in {"restarting", "restarted"} => session[r].cancel # "none"
  /\ foul[r] /\ phase[r] \in InTurns => session[r].cancel # "none"
  /\ phase[r] \in {"opening", "opened", "gates", "succeeded"} => ~foul[r]
  /\ phase[r] \in {"gates", "succeeded"} => ledger[r] <= RunCap

\* The cap is on the calls counted, and no call is allowed that is not.
CallsCounted(r) ==
  /\ calls[r].n = Cardinality(calls[r].counted)
  /\ calls[r].allowed \subseteq calls[r].counted /\ calls[r].allowed \subseteq calls[r].judged
  /\ Cardinality(calls[r].allowed) <= MaxToolCalls
  /\ session[r].cancel = "none" /\ phase[r] \in {"opening", "opened"} \cup InTurns =>
       calls[r].n <= MaxToolCalls

RunKeeps(r) == Accounts(r) /\ Watched(r) /\ CallsCounted(r)
AgentInv == AgentTypes /\ \A r \in Runs : RunKeeps(r)
OnlyOf(r) ==
  \A q \in Runs \ {r} :
    /\ phase'[q] = phase[q] /\ attempt'[q] = attempt[q] /\ session'[q] = session[q]
    /\ calls'[q] = calls[q] /\ foul'[q] = foul[q] /\ ledger'[q] = ledger[q] /\ real'[q] = real[q]
    /\ side'[q] = side[q]

LEMMA AgentOfOne ==
  ASSUME AgentInv, NEW r \in Runs, AgentTypes', OnlyOf(r), RunKeeps(r)'
  PROVE  AgentInv'
<1>1. ASSUME NEW q \in Runs \ {r} PROVE RunKeeps(q)'
  BY DEF AgentInv, OnlyOf, RunKeeps, Accounts, Watched, CallsCounted
<1> QED BY <1>1 DEF AgentInv

LEMMA AgentStarts == ASSUME G!AgentAssumption, G!Init PROVE AgentInv
<1>1. AgentTypes
  BY DEF Phases, G!Init, G!AgentAssumption, AgentTypes, G!NewSession, G!NewCalls, Reasons, InTurns,
         Sessions, CallRecords
<1>2. Cardinality({}) = 0
  BY FS_EmptySet
<1>3. ASSUME NEW r \in Runs PROVE RunKeeps(r)
  <2>1. phase[r] = "start" /\ side[r] = "none" /\ ledger[r] = 0 /\ real[r] = 0
    BY DEF G!Init
  <2>2. calls[r].counted = {} /\ calls[r].n = 0 /\ calls[r].allowed = {}
    BY DEF G!Init, G!NewCalls
  <2>3. CallsCounted(r)
    BY <1>2, <2>1, <2>2 DEF CallsCounted, InTurns, G!AgentAssumption
  <2> QED BY <2>1, <2>3 DEF RunKeeps, Accounts, Watched, InTurns
<1> QED BY <1>1, <1>3 DEF AgentInv

\* A turn begins; a run, or an attempt of it, ends.
LEMMA TurnBegins ==
  ASSUME AgentTypes, NEW r \in Runs, NEW n \in Nat, NEW charged \in Nat, G!BeginTurn(r, n, charged)
  PROVE  /\ session'[r] = [turn |-> n, seen |-> 0, charged |-> charged, cost |-> session[r].cost,
                           cancel |-> "none"]
         /\ session' \in [Runs -> Sessions]
         /\ side' \in [Runs -> {"none", "idle", "working", "broken"}]
         /\ \A q \in Runs \ {r} : session'[q] = session[q] /\ side'[q] = side[q]
<1> DEFINE new == [turn |-> n, seen |-> 0, charged |-> charged, cost |-> session[r].cost,
                   cancel |-> "none"]
<1>1. session \in [Runs -> Sessions] /\ session[r] \in Sessions
  BY DEF AgentTypes
<1>2. new \in Sessions
  BY <1>1 DEF Sessions, Reasons
<1>4. session' = [session EXCEPT ![r] = new]
  BY DEF G!BeginTurn
<1> HIDE DEF new
<1>5. session' \in [Runs -> Sessions] /\ session'[r] = new
      /\ \A q \in Runs \ {r} : session'[q] = session[q]
  BY <1>1, <1>2, <1>4
<1>6. side' \in [Runs -> {"none", "idle", "working", "broken"}]
      /\ \A q \in Runs \ {r} : side'[q] = side[q]
  BY DEF AgentTypes, G!BeginTurn
<1> QED BY <1>5, <1>6 DEF new

AttemptEnds(r) ==
  /\ phase'[r] \in {"start", "failed"} /\ side'[r] = "none"
  /\ phase' \in [Runs -> Phases]
  /\ side' \in [Runs -> {"none", "idle", "working", "broken"}]
  /\ attempt' \in [Runs -> 1 .. MaxAttempts]
  /\ \A q \in Runs \ {r} : phase'[q] = phase[q] /\ side'[q] = side[q] /\ attempt'[q] = attempt[q]

LEMMA AttemptEnding ==
  ASSUME G!AgentAssumption, AgentTypes, NEW r \in Runs, G!Retried(r) \/ G!Failed(r)
  PROVE  AttemptEnds(r)
<1>1. CASE G!Failed(r)
  BY <1>1 DEF G!Failed, G!Closed, AgentTypes, AttemptEnds, Phases, InTurns
<1>2. CASE G!Retried(r) /\ attempt[r] < MaxAttempts
  <2>1. /\ phase' = [phase EXCEPT ![r] = "start"] /\ side' = [side EXCEPT ![r] = "none"]
        /\ attempt' = [attempt EXCEPT ![r] = attempt[r] + 1]
    BY <1>2 DEF G!Retried, G!Closed
  <2>2. attempt[r] + 1 \in 1 .. MaxAttempts
    BY <1>2 DEF AgentTypes, G!AgentAssumption
  <2>3. attempt' \in [Runs -> 1 .. MaxAttempts] /\ \A q \in Runs \ {r} : attempt'[q] = attempt[q]
    BY <2>1, <2>2 DEF AgentTypes
  <2> QED BY <2>1, <2>3 DEF AgentTypes, AttemptEnds, Phases, InTurns
<1>3. CASE G!Retried(r) /\ ~(attempt[r] < MaxAttempts)
  BY <1>3 DEF G!Retried, G!Closed, AgentTypes, AttemptEnds, Phases, InTurns
<1> QED BY <1>1, <1>2, <1>3

\* The steps that open a session and end a run.
LEMMA StartKeeps ==
  ASSUME G!AgentAssumption, AgentInv, NEW r \in Runs, G!Start(r)
  PROVE  AgentInv'
<1>1. AgentTypes'
  BY DEF Phases, AgentInv, AgentTypes, G!Start, G!NewSession, G!NewCalls, Reasons, InTurns,
         Sessions, CallRecords
<1>2. OnlyOf(r)
  BY DEF AgentInv, AgentTypes, OnlyOf, G!Start
<1>3. Cardinality({}) = 0
  BY FS_EmptySet
<1>4. RunKeeps(r)'
  BY <1>3 DEF AgentInv, AgentTypes, G!Start, G!NewSession, G!NewCalls, InTurns, G!AgentAssumption,
             RunKeeps, Accounts, Watched, CallsCounted
<1> QED BY <1>1, <1>2, <1>4, AgentOfOne

LEMMA OpensKeep ==
  ASSUME G!AgentAssumption, AgentInv, NEW r \in Runs,
         \/ G!Opened(r) \/ G!Prompt(r) \/ G!FailsOutside(r)
         \/ G!GatesPass(r) \/ G!Stuck(r) \/ G!Abort(r)
  PROVE  AgentInv'
<1> USE DEF AgentInv, AgentTypes, InTurns, Phases, Reasons, Sessions,
                     CallRecords
<1>1. CASE G!Opened(r)
  <2>1. AgentTypes' /\ OnlyOf(r)
    BY <1>1 DEF G!Opened, OnlyOf
  <2>2. RunKeeps(r)'
    BY <1>1 DEF G!Opened, RunKeeps, Accounts, Watched, CallsCounted
  <2> QED BY <2>1, <2>2, AgentOfOne
<1>2. CASE G!Prompt(r)
  <2>p. PICK none \in Nat, first \in Nat : none = 0 /\ first = 1
    OBVIOUS
  <2>b. /\ phase[r] = "opened" /\ phase' = [phase EXCEPT ![r] = "turn"]
        /\ G!BeginTurn(r, first, none) /\ UNCHANGED <<attempt, calls, foul, ledger, real>>
    BY <1>2, <2>p DEF G!Prompt
  <2>1. AgentTypes' /\ OnlyOf(r)
    BY <2>b, TurnBegins DEF OnlyOf
  <2>2. session'[r] = [turn |-> first, seen |-> 0, charged |-> none, cost |-> session[r].cost,
                       cancel |-> "none"]
    BY <2>b, TurnBegins
  <2>3. session[r].cost = 0 /\ session[r].cancel = "none"
        /\ ledger[r] = real[r] /\ ledger[r] \in Nat
    BY <2>b DEF RunKeeps, Accounts, G!NewSession
  <2>4. phase'[r] = "turn"
    BY <2>b
  <2>5. Accounts(r)'
    BY <2>b, <2>p, <2>2, <2>3, <2>4 DEF Accounts
  <2>6. Watched(r)'
    BY <2>b, <2>4 DEF RunKeeps, Watched
  <2>7. CallsCounted(r)'
    BY <2>b, <2>3, <2>4 DEF RunKeeps, CallsCounted
  <2> QED BY <2>1, <2>5, <2>6, <2>7, AgentOfOne DEF RunKeeps
<1>3. CASE G!FailsOutside(r)
  <2>1. AgentTypes' /\ OnlyOf(r)
    BY <1>3, AttemptEnding DEF G!FailsOutside, AttemptEnds, OnlyOf
  <2>2. RunKeeps(r)'
    BY <1>3, AttemptEnding
      DEF G!FailsOutside, AttemptEnds, RunKeeps, Accounts, Watched, CallsCounted
  <2> QED BY <2>1, <2>2, AgentOfOne
<1>4. CASE G!GatesPass(r)
  <2>1. AgentTypes' /\ OnlyOf(r)
    BY <1>4 DEF G!GatesPass, G!Closed, OnlyOf
  <2>2. RunKeeps(r)'
    BY <1>4 DEF G!GatesPass, G!Closed, RunKeeps, Accounts, Watched, CallsCounted
  <2> QED BY <2>1, <2>2, AgentOfOne
<1>5. CASE G!Stuck(r)
  <2>1. AgentTypes' /\ OnlyOf(r)
    BY <1>5 DEF G!Stuck, G!AfterGrace, OnlyOf
  <2>2. RunKeeps(r)'
    BY <1>5 DEF G!Stuck, G!InTurn, G!AfterGrace, RunKeeps, Accounts, Watched, CallsCounted
  <2> QED BY <2>1, <2>2, AgentOfOne
<1>6. CASE G!Abort(r)
  <2>1. AgentTypes' /\ OnlyOf(r)
    BY <1>6 DEF G!Abort, OnlyOf
  <2>2. RunKeeps(r)'
    BY <1>6 DEF G!Abort, RunKeeps, Accounts, Watched, CallsCounted
  <2> QED BY <2>1, <2>2, AgentOfOne
<1> QED BY <1>1, <1>2, <1>3, <1>4, <1>5, <1>6

\* The process exits or is restarted: every session on it breaks.
LEMMA BreakKeeps ==
  ASSUME G!AgentAssumption, AgentInv, G!ProcessExits \/ \E r \in Runs : G!Restart(r)
  PROVE  AgentInv'
<1> USE DEF AgentInv, AgentTypes, InTurns, Phases, Reasons, Sessions,
                     CallRecords
<1>1. CASE G!ProcessExits
  BY <1>1 DEF G!ProcessExits, RunKeeps, Accounts, Watched, CallsCounted
<1>2. ASSUME NEW r \in Runs, G!Restart(r) PROVE AgentInv'
  <2>1. AgentTypes'
    BY <1>2 DEF G!Restart
  <2>2. \A q \in Runs : RunKeeps(q)'
    BY <1>2 DEF G!Restart, RunKeeps, Accounts, Watched, CallsCounted
  <2> QED BY <2>1, <2>2
<1> QED BY <1>1, <1>2

\* What a call changes of its session and of the calls counted.
Recorded(r, new, cancel) ==
  /\ calls' = [calls EXCEPT ![r] = new] /\ session' = [session EXCEPT ![r].cancel = cancel]

LEMMA CallRecorded ==
  ASSUME AgentTypes, NEW r \in Runs, NEW new \in CallRecords, NEW cancel \in Reasons,
         Recorded(r, new, cancel)
  PROVE  /\ calls' \in [Runs -> CallRecords] /\ calls'[r] = new
         /\ session' \in [Runs -> Sessions]
         /\ session'[r] \in Sessions /\ session'[r].cancel = cancel
         /\ session'[r].turn = session[r].turn /\ session'[r].seen = session[r].seen
         /\ session'[r].charged = session[r].charged /\ session'[r].cost = session[r].cost
         /\ \A q \in Runs \ {r} : calls'[q] = calls[q] /\ session'[q] = session[q]
<1>1. session[r] \in Sessions /\ session \in [Runs -> Sessions] /\ calls \in [Runs -> CallRecords]
  BY DEF AgentTypes
<1> DEFINE after == [session[r] EXCEPT !.cancel = cancel]
<1>2. /\ after \in Sessions /\ after.cancel = cancel /\ after.turn = session[r].turn
      /\ after.seen = session[r].seen /\ after.charged = session[r].charged
      /\ after.cost = session[r].cost
  BY <1>1 DEF Sessions
<1>3. session' = [session EXCEPT ![r] = after]
  BY DEF Recorded
<1> HIDE DEF after
<1>4. session' \in [Runs -> Sessions] /\ session'[r] = after
      /\ \A q \in Runs \ {r} : session'[q] = session[q]
  BY <1>1, <1>2, <1>3
<1>5. calls' \in [Runs -> CallRecords] /\ calls'[r] = new
      /\ \A q \in Runs \ {r} : calls'[q] = calls[q]
  BY <1>1 DEF Recorded
<1> QED BY <1>2, <1>4, <1>5

\* Counting a call: the count stays the number of ids, and within the cap while the turn
\* is not being cancelled.
CountKept(r, more, count, cancel) ==
  /\ more \in SUBSET Calls /\ count \in Nat /\ count = Cardinality(more)
  /\ cancel \in Reasons /\ (session[r].cancel # "none" => cancel # "none")
  /\ phase[r] \in InTurns /\ cancel = "none" => count <= MaxToolCalls

LEMMA CallCounted ==
  ASSUME G!AgentAssumption, AgentTypes, NEW r \in Runs, NEW c \in Calls, RunKeeps(r),
         NEW more, NEW count, NEW cancel, more = calls[r].counted \cup {c},
         count = G!CountOf(r, c), cancel = G!AfterCount(r, c)
  PROVE  CountKept(r, more, count, cancel)
<1>1. /\ calls[r] \in CallRecords /\ calls[r].counted \in SUBSET Calls /\ calls[r].n \in Nat
      /\ session[r].cancel \in Reasons
  BY DEF AgentTypes, CallRecords, Sessions
<1>2. IsFiniteSet(calls[r].counted)
  BY <1>1, CallsAreFinite
<1>3. calls[r].n = Cardinality(calls[r].counted)
  BY DEF RunKeeps, CallsCounted
<1>4. count = Cardinality(more) /\ count \in Nat
  <2>1. CASE c \in calls[r].counted
    <3>1. more = calls[r].counted /\ count = calls[r].n
      BY <1>1, <2>1 DEF G!CountOf, G!Counted
    <3> QED BY <1>1, <1>3, <3>1
  <2>2. CASE c \notin calls[r].counted
    <3>1. count = calls[r].n + 1
      BY <2>2 DEF G!CountOf, G!Counted
    <3>2. Cardinality(more) = Cardinality(calls[r].counted) + 1
      BY <1>2, <2>2, FS_AddElement
    <3> QED BY <1>1, <1>3, <3>1, <3>2
  <2> QED BY <2>1, <2>2
<1>5. cancel \in Reasons /\ (session[r].cancel # "none" => cancel # "none")
  BY <1>1 DEF G!AfterCount, G!Cancel, Reasons
<1>6. phase[r] \in InTurns /\ cancel = "none" => count <= MaxToolCalls
  <2> SUFFICES ASSUME phase[r] \in InTurns, cancel = "none" PROVE count <= MaxToolCalls
    OBVIOUS
  <2>1. CASE c \in calls[r].counted
    <3>1. count = calls[r].n
      BY <1>1, <2>1 DEF G!CountOf, G!Counted
    <3>2. session[r].cancel = "none"
      BY <1>5
    <3> QED BY <3>1, <3>2 DEF RunKeeps, CallsCounted
  <2>2. CASE c \notin calls[r].counted
    <3>1. G!Cancel(r, "tool_calls") # "none"
      BY <1>1 DEF G!Cancel
    <3>2. ~(count > MaxToolCalls)
      BY <2>2, <3>1 DEF G!AfterCount, G!Counted
    <3> QED BY <1>4, <3>2 DEF G!AgentAssumption
  <2> QED BY <2>1, <2>2
<1> QED BY <1>1, <1>4, <1>5, <1>6 DEF CountKept

\* Calls of the agent's tools.
LEMMA StartsKeep ==
  ASSUME G!AgentAssumption, AgentInv, NEW r \in Runs, NEW c \in Calls, G!StartsUnasked(r, c)
  PROVE  AgentInv'
<1>t. AgentTypes /\ RunKeeps(r) /\ calls[r] \in CallRecords
  BY DEF AgentInv, AgentTypes
<1>p. PICK more, count, cancel : /\ more = calls[r].counted \cup {c} /\ count = G!CountOf(r, c)
                                 /\ cancel = G!AfterCount(r, c)
  OBVIOUS
<1>1. CountKept(r, more, count, cancel)
  BY <1>t, <1>p, CallCounted
<1>2. PICK why \in Reasons : /\ why = IF c \in BadCalls /\ cancel = "none" THEN "policy" ELSE cancel
                             /\ cancel # "none" => why # "none"
                             /\ c \in BadCalls => why # "none"
  BY <1>1 DEF CountKept, Reasons
<1>3. PICK new \in CallRecords : /\ new = [calls[r] EXCEPT !.counted = more, !.n = count]
                                 /\ new.counted = more /\ new.n = count
                                 /\ new.judged = calls[r].judged /\ new.allowed = calls[r].allowed
  <2>1. /\ [calls[r] EXCEPT !.counted = more, !.n = count] \in CallRecords
        /\ [calls[r] EXCEPT !.counted = more, !.n = count].counted = more
        /\ [calls[r] EXCEPT !.counted = more, !.n = count].n = count
        /\ [calls[r] EXCEPT !.counted = more, !.n = count].judged = calls[r].judged
        /\ [calls[r] EXCEPT !.counted = more, !.n = count].allowed = calls[r].allowed
    BY <1>t, <1>1 DEF CountKept, CallRecords
  <2> QED BY <2>1
<1>4. Recorded(r, new, why)
  <2>1. calls' = [calls EXCEPT ![r] = new]
    <3>1. calls' = [calls EXCEPT ![r] = [calls[r] EXCEPT !.counted = calls[r].counted \cup {c},
                                                         !.n = G!CountOf(r, c)]]
      BY DEF G!StartsUnasked
    <3> QED BY <1>p, <1>3, <3>1
  <2>2. session' = [session EXCEPT ![r].cancel = why]
    BY <1>p, <1>2 DEF G!StartsUnasked
  <2> QED BY <2>1, <2>2 DEF Recorded
<1>5. /\ phase[r] = "turn" /\ UNCHANGED <<phase, attempt, side, ledger, real>>
      /\ foul'[r] = (foul[r] \/ c \in BadCalls) /\ foul' \in [Runs -> BOOLEAN]
      /\ \A q \in Runs \ {r} : foul'[q] = foul[q]
  BY <1>t DEF G!StartsUnasked, G!InTurn, AgentTypes
<1>6. AgentTypes' /\ OnlyOf(r)
  BY <1>t, <1>4, <1>5, CallRecorded DEF AgentTypes, OnlyOf
<1>7. Accounts(r)'
  BY <1>t, <1>4, <1>5, CallRecorded DEF RunKeeps, Accounts, InTurns
<1>8. Watched(r)'
  <2>1. session'[r].cancel = why
    BY <1>t, <1>4, CallRecorded
  <2>2. session[r].cancel # "none" => why # "none"
    BY <1>1, <1>2 DEF CountKept
  <2> QED BY <1>t, <1>2, <1>5, <2>1, <2>2 DEF RunKeeps, Watched, InTurns
<1>9. CallsCounted(r)'
  <2>1. session'[r].cancel = why /\ calls'[r] = new
    BY <1>t, <1>4, CallRecorded
  <2>2. why = "none" => count <= MaxToolCalls
    BY <1>1, <1>2, <1>5 DEF CountKept, InTurns
  <2> QED BY <1>t, <1>p, <1>1, <1>3, <1>5, <2>1, <2>2 DEF CountKept, RunKeeps, CallsCounted, InTurns
<1> QED BY <1>6, <1>7, <1>8, <1>9, AgentOfOne DEF RunKeeps

LEMMA AsksKeep ==
  ASSUME G!AgentAssumption, AgentInv, NEW r \in Runs, NEW c \in Calls, G!Asks(r, c)
  PROVE  AgentInv'
<1>t. /\ AgentTypes /\ RunKeeps(r) /\ calls[r] \in CallRecords
      /\ calls[r].allowed \in SUBSET Calls /\ calls[r].judged \in SUBSET Calls
      /\ phase[r] = "turn" /\ UNCHANGED <<phase, attempt, side, foul, ledger, real>>
  BY DEF AgentInv, AgentTypes, CallRecords, G!Asks, G!InTurn
<1>p. PICK more, count, cancel : /\ more = calls[r].counted \cup {c} /\ count = G!CountOf(r, c)
                                 /\ cancel = G!AfterCount(r, c)
  OBVIOUS
<1>1. CountKept(r, more, count, cancel)
  BY <1>t, <1>p, CallCounted
<1>2. PICK allow \in SUBSET Calls :
        /\ allow = IF cancel = "none" /\ c \notin BadCalls THEN calls[r].allowed \cup {c}
                   ELSE calls[r].allowed
        /\ cancel # "none" => allow = calls[r].allowed
        /\ allow \subseteq calls[r].judged \cup {c} /\ allow \subseteq more
  BY <1>t, <1>p DEF RunKeeps, CallsCounted
<1>3. Cardinality(allow) <= MaxToolCalls
  <2>1. CASE cancel # "none"
    BY <1>t, <1>2, <2>1 DEF RunKeeps, CallsCounted
  <2>2. CASE cancel = "none"
    <3>1. IsFiniteSet(more) /\ IsFiniteSet(allow)
      BY <1>1, <1>2, CallsAreFinite DEF CountKept
    <3>2. Cardinality(allow) <= Cardinality(more) /\ Cardinality(allow) \in Nat
      BY <1>2, <3>1, FS_Subset, FS_CardinalityType
    <3>3. count <= MaxToolCalls
      BY <1>1, <1>t, <2>2 DEF CountKept, InTurns
    <3> QED BY <1>1, <3>2, <3>3 DEF CountKept, G!AgentAssumption
  <2> QED BY <2>1, <2>2
<1>4. PICK new \in CallRecords :
        /\ new = [counted |-> more, n |-> count, judged |-> calls[r].judged \cup {c},
                  allowed |-> allow]
        /\ new.counted = more /\ new.n = count
        /\ new.judged = calls[r].judged \cup {c} /\ new.allowed = allow
  <2>1. calls[r].judged \cup {c} \in SUBSET Calls
    BY <1>t
  <2>2. more \in SUBSET Calls /\ count \in Nat
    BY <1>1 DEF CountKept
  <2> DEFINE it == [counted |-> more, n |-> count, judged |-> calls[r].judged \cup {c},
                    allowed |-> allow]
  <2>3. /\ it.counted = more /\ it.n = count
        /\ it.judged = calls[r].judged \cup {c} /\ it.allowed = allow
    OBVIOUS
  <2>4. it \in CallRecords
    BY <1>2, <2>1, <2>2 DEF CallRecords
  <2> HIDE DEF it
  <2>5. it = [counted |-> more, n |-> count, judged |-> calls[r].judged \cup {c},
              allowed |-> allow]
    BY DEF it
  <2> QED BY <2>3, <2>4, <2>5
<1>5. Recorded(r, new, cancel) /\ cancel \in Reasons
  BY <1>p, <1>1, <1>2, <1>4 DEF G!Asks, Recorded, CountKept
<1>6. AgentTypes' /\ OnlyOf(r)
  BY <1>t, <1>5, CallRecorded DEF AgentTypes, OnlyOf
<1>7. Accounts(r)'
  BY <1>t, <1>5, CallRecorded DEF RunKeeps, Accounts, InTurns
<1>8. session'[r].cancel = cancel /\ calls'[r] = new
  BY <1>t, <1>5, CallRecorded
<1>9. Watched(r)'
  BY <1>t, <1>1, <1>8 DEF CountKept, RunKeeps, Watched, InTurns
<1>10. CallsCounted(r)'
  BY <1>t, <1>p, <1>1, <1>2, <1>3, <1>4, <1>8 DEF CountKept, RunKeeps, CallsCounted, InTurns
<1> QED BY <1>6, <1>7, <1>9, <1>10, AgentOfOne DEF RunKeeps

LEMMA AsksBetweenKeep ==
  ASSUME G!AgentAssumption, AgentInv, NEW r \in Runs, NEW c \in Calls, G!AsksBetweenTurns(r, c)
  PROVE  AgentInv'
<1>t. /\ AgentTypes /\ RunKeeps(r) /\ calls[r] \in CallRecords /\ calls \in [Runs -> CallRecords]
      /\ UNCHANGED <<phase, attempt, side, session, foul, ledger, real>>
  BY DEF AgentInv, AgentTypes, G!AsksBetweenTurns
<1>1. PICK new \in CallRecords :
        /\ new = [calls[r] EXCEPT !.judged = calls[r].judged \cup {c}]
        /\ new.counted = calls[r].counted /\ new.n = calls[r].n
        /\ new.judged = calls[r].judged \cup {c} /\ new.allowed = calls[r].allowed
  <2>1. /\ [calls[r] EXCEPT !.judged = calls[r].judged \cup {c}] \in CallRecords
        /\ [calls[r] EXCEPT !.judged = calls[r].judged \cup {c}].counted = calls[r].counted
        /\ [calls[r] EXCEPT !.judged = calls[r].judged \cup {c}].n = calls[r].n
        /\ [calls[r] EXCEPT !.judged = calls[r].judged \cup {c}].judged = calls[r].judged \cup {c}
        /\ [calls[r] EXCEPT !.judged = calls[r].judged \cup {c}].allowed = calls[r].allowed
    BY <1>t DEF CallRecords
  <2> QED BY <2>1
<1>2. calls' = [calls EXCEPT ![r] = new]
  BY <1>1 DEF G!AsksBetweenTurns
<1>3. AgentTypes' /\ OnlyOf(r) /\ calls'[r] = new
  BY <1>t, <1>2 DEF AgentTypes, OnlyOf
<1>4. RunKeeps(r)'
  BY <1>t, <1>1, <1>3 DEF RunKeeps, Accounts, Watched, CallsCounted
<1> QED BY <1>3, <1>4, AgentOfOne

\* The session reports its cost so far.
LEMMA ReportsKeep ==
  ASSUME G!AgentAssumption, AgentInv, NEW r \in Runs, G!Reports(r)
  PROVE  AgentInv'
<1>t. /\ AgentTypes /\ RunKeeps(r) /\ session[r] \in Sessions /\ session \in [Runs -> Sessions]
      /\ session[r].cost \in Nat /\ session[r].charged \in Nat /\ session[r].cancel \in Reasons
      /\ ledger[r] \in Nat /\ real[r] \in Nat
      /\ phase[r] = "turn" /\ UNCHANGED <<phase, attempt, side, calls, foul, ledger>>
  BY DEF AgentInv, AgentTypes, Sessions, G!Reports, G!InTurn
<1>p. PICK cost \in Nat : cost = session[r].cost + 1
  BY <1>t
<1>1. PICK cancel \in Reasons :
        /\ cancel = IF G!OverBudget(r, cost) THEN G!Cancel(r, "budget") ELSE session[r].cancel
        /\ session[r].cancel # "none" => cancel # "none"
  BY <1>t DEF G!Cancel, Reasons
<1>2. PICK new \in Sessions :
        /\ new = [session[r] EXCEPT !.cost = cost, !.seen = cost, !.cancel = cancel]
        /\ new.turn = session[r].turn /\ new.charged = session[r].charged
        /\ new.cost = cost /\ new.seen = cost /\ new.cancel = cancel
  <2> DEFINE it == [session[r] EXCEPT !.cost = cost, !.seen = cost, !.cancel = cancel]
  <2>1. /\ it \in Sessions /\ it.turn = session[r].turn /\ it.charged = session[r].charged
        /\ it.cost = cost /\ it.seen = cost /\ it.cancel = cancel
    BY <1>t DEF Sessions
  <2>2. it = [session[r] EXCEPT !.cost = cost, !.seen = cost, !.cancel = cancel]
    OBVIOUS
  <2> QED BY <2>1, <2>2
<1>3. session' = [session EXCEPT ![r] = new] /\ real' = [real EXCEPT ![r] = real[r] + 1]
  BY <1>p, <1>1, <1>2 DEF G!Reports
<1>4. /\ session' \in [Runs -> Sessions] /\ session'[r] = new /\ real'[r] = real[r] + 1
      /\ real' \in [Runs -> Nat]
      /\ \A q \in Runs \ {r} : session'[q] = session[q] /\ real'[q] = real[q]
  BY <1>t, <1>3 DEF AgentTypes
<1>5. AgentTypes' /\ OnlyOf(r)
  BY <1>t, <1>4 DEF AgentTypes, OnlyOf
<1>6. Accounts(r)'
  BY <1>t, <1>p, <1>2, <1>4 DEF RunKeeps, Accounts, InTurns
<1>7. Watched(r)'
  BY <1>t, <1>1, <1>2, <1>4 DEF RunKeeps, Watched, InTurns
<1>8. CallsCounted(r)'
  BY <1>t, <1>1, <1>2, <1>4 DEF RunKeeps, CallsCounted, InTurns
<1> QED BY <1>5, <1>6, <1>7, <1>8, AgentOfOne DEF RunKeeps

\* What a turn leaves uncharged is exactly what its end adds to the ledger.
TurnCharges(r, tokens) ==
  /\ ledger' = [ledger EXCEPT ![r] = @ + G!Amount(r, tokens)]
  /\ real' = [real EXCEPT ![r] = @ + (IF session[r].seen > 0 THEN 0 ELSE tokens)]

LEMMA TurnCharged ==
  ASSUME AgentTypes, NEW r \in Runs, RunKeeps(r), phase[r] \in InTurns, NEW tokens \in Nat,
         TurnCharges(r, tokens)
  PROVE  /\ ledger' \in [Runs -> Nat] /\ real' \in [Runs -> Nat]
         /\ ledger'[r] = real'[r]
         /\ \A q \in Runs \ {r} : ledger'[q] = ledger[q] /\ real'[q] = real[q]
<1>1. /\ session[r].cost \in Nat /\ session[r].charged \in Nat /\ session[r].seen \in Nat
      /\ ledger \in [Runs -> Nat] /\ real \in [Runs -> Nat]
  BY DEF AgentTypes, Sessions
<1>2. /\ session[r].charged <= session[r].cost
      /\ real[r] = ledger[r] + (session[r].cost - session[r].charged)
      /\ session[r].seen \in {0, session[r].cost}
      /\ session[r].seen = 0 => session[r].cost = session[r].charged
  BY DEF RunKeeps, Accounts
<1>3. PICK amount \in Nat, add \in Nat :
        /\ amount = G!Amount(r, tokens) /\ add = (IF session[r].seen > 0 THEN 0 ELSE tokens)
        /\ ledger[r] + amount = real[r] + add
  <2>1. CASE session[r].seen > 0
    <3>1. G!Amount(r, tokens) = IF session[r].cost > session[r].charged
                                THEN session[r].cost - session[r].charged ELSE 0
      BY <1>1, <1>2, <2>1 DEF G!Amount, G!Reported, G!Pending
    <3>2. G!Amount(r, tokens) = session[r].cost - session[r].charged
      BY <1>1, <1>2, <3>1
    <3>3. session[r].cost - session[r].charged \in Nat /\ 0 \in Nat
      BY <1>1, <1>2
    <3> QED BY <1>1, <1>2, <2>1, <3>2, <3>3
  <2>2. CASE ~(session[r].seen > 0)
    <3>1. G!Amount(r, tokens) = tokens
      BY <2>2 DEF G!Amount
    <3>2. real[r] = ledger[r]
      BY <1>1, <1>2, <2>2
    <3> QED BY <1>1, <2>2, <3>1, <3>2
  <2> QED BY <2>1, <2>2
<1>4. /\ ledger' = [ledger EXCEPT ![r] = ledger[r] + amount]
      /\ real' = [real EXCEPT ![r] = real[r] + add]
  BY <1>3 DEF TurnCharges
<1> QED BY <1>1, <1>3, <1>4

\* A turn ends its attempt, or goes on, to the gates or once more, when nothing cancelled it.
GoesToGates(r) ==
  /\ phase' = [phase EXCEPT ![r] = "gates"] /\ UNCHANGED <<attempt, session>>
  /\ side' = [side EXCEPT ![r] = IF @ = "working" THEN "idle" ELSE @]
GoesOnceMore(r, n, charged) ==
  /\ charged = (IF session[r].seen > 0 THEN session[r].seen ELSE session[r].charged)
  /\ G!BeginTurn(r, n, charged) /\ UNCHANGED <<phase, attempt>>

LEMMA TurnOutcome ==
  ASSUME AgentTypes, NEW r \in Runs, NEW how, NEW tokens \in Nat, G!TurnOver(r, how, tokens)
  PROVE  \/ (G!Retried(r) \/ G!Failed(r)) /\ UNCHANGED session
         \/ /\ session[r].cancel = "none" /\ ~(ledger'[r] > RunCap)
            /\ GoesToGates(r) \/ \E n \in Nat, charged \in Nat : GoesOnceMore(r, n, charged)
<1>1. /\ session[r].cancel \in Reasons /\ ledger \in [Runs -> Nat]
      /\ session[r].seen \in Nat /\ session[r].charged \in Nat
  BY DEF AgentTypes, Sessions
<1>n. PICK booked : booked = [ledger EXCEPT ![r] = @ + G!Amount(r, tokens)]
  OBVIOUS
<1>p. PICK charged \in Nat, n \in Nat :
        /\ n = 2
        /\ charged = (IF session[r].seen > 0 THEN session[r].seen ELSE session[r].charged)
  BY <1>1
<1>2. ledger' = booked
  BY <1>n DEF G!TurnOver
<1>3. SUFFICES ASSUME ~((G!Retried(r) \/ G!Failed(r)) /\ UNCHANGED session)
               PROVE  /\ session[r].cancel = "none" /\ ~(booked[r] > RunCap)
                      /\ GoesToGates(r) \/ GoesOnceMore(r, n, charged)
  BY <1>p, <1>2
<1>4. /\ ~G!Overrun(r, booked) /\ session[r].cancel \notin {"budget", "tool_calls", "policy"}
      /\ session[r].cancel # "abort"
  BY <1>n, <1>p, <1>3 DEF G!TurnOver
<1>5. session[r].cancel = "none" /\ ~(booked[r] > RunCap)
  BY <1>1, <1>4 DEF Reasons, G!Overrun
<1>6. GoesToGates(r) \/ GoesOnceMore(r, n, charged)
  BY <1>n, <1>p, <1>3, <1>4 DEF G!TurnOver, GoesToGates, GoesOnceMore
<1> QED BY <1>5, <1>6

LEMMA TurnOverKeeps ==
  ASSUME G!AgentAssumption, AgentInv, NEW r \in Runs, phase[r] \in InTurns, NEW tokens \in Nat,
         NEW how, G!TurnOver(r, how, tokens), TurnCharges(r, tokens), UNCHANGED <<calls, foul>>
  PROVE  AgentInv'
<1>t. /\ AgentTypes /\ RunKeeps(r) /\ session[r].cost \in Nat /\ session[r].charged \in Nat
      /\ session[r].seen \in Nat /\ RunCap \in Nat
  BY DEF AgentInv, AgentTypes, Sessions, G!AgentAssumption
<1>1. /\ ledger' \in [Runs -> Nat] /\ real' \in [Runs -> Nat]
      /\ ledger'[r] = real'[r]
      /\ \A q \in Runs \ {r} : ledger'[q] = ledger[q] /\ real'[q] = real[q]
  BY <1>t, TurnCharged
<1>2. CASE (G!Retried(r) \/ G!Failed(r)) /\ UNCHANGED session
  <2>1. AttemptEnds(r)
    BY <1>t, <1>2, AttemptEnding
  <2>2. AgentTypes' /\ OnlyOf(r)
    BY <1>t, <1>1, <1>2, <2>1 DEF AttemptEnds, AgentTypes, OnlyOf
  <2>3. RunKeeps(r)'
    BY <1>t, <1>1, <1>2, <2>1 DEF AttemptEnds, RunKeeps, Accounts, Watched, CallsCounted, InTurns
  <2> QED BY <2>2, <2>3, AgentOfOne
<1>3. CASE session[r].cancel = "none" /\ ~(ledger'[r] > RunCap) /\ GoesToGates(r)
  <2>1. AgentTypes' /\ OnlyOf(r)
    BY <1>t, <1>1, <1>3 DEF GoesToGates, AgentTypes, OnlyOf, Phases, InTurns
  <2>2. phase'[r] = "gates" /\ side'[r] # "working" /\ session' = session /\ ~foul[r]
    BY <1>t, <1>3 DEF GoesToGates, AgentTypes, RunKeeps, Watched
  <2>3. ledger'[r] <= RunCap
    BY <1>t, <1>1, <1>3
  <2>4. RunKeeps(r)'
    BY <1>t, <1>1, <2>2, <2>3 DEF RunKeeps, Accounts, Watched, CallsCounted, InTurns
  <2> QED BY <2>1, <2>4, AgentOfOne
<1>4. ASSUME session[r].cancel = "none", NEW n \in Nat, NEW charged \in Nat,
             GoesOnceMore(r, n, charged)
      PROVE  AgentInv'
  <2>1. /\ session'[r] = [turn |-> n, seen |-> 0, charged |-> charged, cost |-> session[r].cost,
                          cancel |-> "none"]
        /\ session' \in [Runs -> Sessions]
        /\ side' \in [Runs -> {"none", "idle", "working", "broken"}]
        /\ \A q \in Runs \ {r} : session'[q] = session[q] /\ side'[q] = side[q]
    BY <1>t, <1>4, TurnBegins DEF GoesOnceMore
  <2>2. UNCHANGED <<phase, attempt>>
    BY <1>4 DEF GoesOnceMore
  <2>3. AgentTypes' /\ OnlyOf(r)
    BY <1>t, <1>1, <2>1, <2>2 DEF AgentTypes, OnlyOf
  <2>4. charged = session[r].cost
    BY <1>t, <1>4 DEF GoesOnceMore, RunKeeps, Accounts
  <2>5. phase[r] = "turn" /\ ~foul[r]
    BY <1>t, <1>4 DEF RunKeeps, Watched, InTurns
  <2>6. Accounts(r)'
    <3>1. /\ session'[r].seen = 0 /\ session'[r].charged = session[r].cost
          /\ session'[r].cost = session[r].cost
      BY <2>1, <2>4
    <3>2. real'[r] = ledger'[r] + (session'[r].cost - session'[r].charged)
      BY <1>t, <1>1, <3>1
    <3> QED BY <1>t, <2>2, <2>5, <3>1, <3>2 DEF Accounts, InTurns
  <2>7. Watched(r)'
    BY <1>t, <2>2, <2>5 DEF RunKeeps, Watched, InTurns
  <2>8. CallsCounted(r)'
    BY <1>t, <1>4, <2>2, <2>5 DEF RunKeeps, CallsCounted, InTurns
  <2> QED BY <2>3, <2>6, <2>7, <2>8, AgentOfOne DEF RunKeeps
<1> QED BY <1>t, <1>2, <1>3, <1>4, TurnOutcome

\* A turn's end: the agent's stop, a broken session, a process stopped.
LEMMA TurnsEnd ==
  ASSUME G!AgentAssumption, AgentInv, NEW r \in Runs,
         (\E t \in 0 .. MaxCost : G!Stops(r, t)) \/ G!Breaks(r) \/ G!Restarted(r)
  PROVE  AgentInv'
<1>1. ASSUME NEW t \in 0 .. MaxCost, G!Stops(r, t) PROVE AgentInv'
  <2>h. PICK how : how = "stop"
    OBVIOUS
  <2>p. PICK tokens \in Nat : tokens = t
    BY DEF G!AgentAssumption
  <2>1. G!TurnOver(r, how, tokens) /\ UNCHANGED <<calls, foul>> /\ phase[r] \in InTurns
    BY <1>1, <2>h, <2>p DEF G!Stops, G!InTurn, InTurns
  <2>2. TurnCharges(r, tokens)
    BY <1>1, <2>p, <2>1 DEF G!Stops, G!TurnOver, TurnCharges
  <2> QED BY <2>1, <2>2, TurnOverKeeps
<1>2. ASSUME G!Breaks(r) \/ G!Restarted(r) PROVE AgentInv'
  <2>h. PICK hung, error : hung = "stuck" /\ error = "error"
    OBVIOUS
  <2>p. PICK tokens \in Nat : tokens = 0
    OBVIOUS
  <2>1. /\ G!TurnOver(r, hung, tokens) \/ G!TurnOver(r, error, tokens)
        /\ UNCHANGED <<calls, foul, real>> /\ phase[r] \in InTurns
    BY <1>2, <2>h, <2>p DEF G!Breaks, G!Restarted, InTurns
  <2>2. ledger' = [ledger EXCEPT ![r] = @ + G!Amount(r, tokens)]
    BY <2>1 DEF G!TurnOver
  <2>3. real' = [real EXCEPT ![r] = @ + (IF session[r].seen > 0 THEN 0 ELSE tokens)]
    <3>1. real[r] + (IF session[r].seen > 0 THEN 0 ELSE tokens) = real[r]
      BY <2>p DEF AgentInv, AgentTypes
    <3>2. real = [real EXCEPT ![r] = real[r]]
      BY DEF AgentInv, AgentTypes
    <3> QED BY <2>1, <3>1, <3>2
  <2>4. TurnCharges(r, tokens)
    BY <2>2, <2>3 DEF TurnCharges
  <2> QED BY <2>1, <2>4, TurnOverKeeps
<1> QED BY <1>1, <1>2

\* Nothing happens: what the invariant says of a state stays.
LEMMA AgentStays == ASSUME AgentInv, UNCHANGED G!vars PROVE AgentInv'
BY DEF AgentInv, AgentTypes, RunKeeps, Accounts, Watched, CallsCounted, G!vars

LEMMA AgentKeeps == ASSUME G!AgentAssumption, AgentInv, [G!Next]_G!vars PROVE AgentInv'
<1>1. CASE UNCHANGED G!vars
  BY <1>1, AgentStays
<1>2. CASE G!ProcessExits
  BY <1>2, BreakKeeps
<1>3. ASSUME NEW r \in Runs, G!Start(r) PROVE AgentInv'
  BY <1>3, StartKeeps
<1>4. ASSUME NEW r \in Runs, G!Opened(r) \/ G!Prompt(r) \/ G!FailsOutside(r) \/ G!GatesPass(r)
                             \/ G!Stuck(r) \/ G!Abort(r)
      PROVE  AgentInv'
  BY <1>4, OpensKeep
<1>5. ASSUME NEW r \in Runs, G!Reports(r) PROVE AgentInv'
  BY <1>5, ReportsKeep
<1>6. ASSUME NEW r \in Runs, (\E t \in 0 .. MaxCost : G!Stops(r, t)) \/ G!Breaks(r)
                             \/ G!Restarted(r)
      PROVE  AgentInv'
  BY <1>6, TurnsEnd
<1>7. ASSUME NEW r \in Runs, G!Restart(r) PROVE AgentInv'
  BY <1>7, BreakKeeps
<1>8. ASSUME NEW r \in Runs, NEW c \in Calls,
             G!StartsUnasked(r, c) \/ G!Asks(r, c) \/ G!AsksBetweenTurns(r, c)
      PROVE  AgentInv'
  BY <1>8, StartsKeep, AsksKeep, AsksBetweenKeep
<1> QED BY <1>1, <1>2, <1>3, <1>4, <1>5, <1>6, <1>7, <1>8 DEF G!Next

LEMMA AgentInvHolds == ASSUME G!AgentAssumption PROVE G!Spec => []AgentInv
<1>1. G!Init => AgentInv
  BY AgentStarts
<1>2. AgentInv /\ [G!Next]_G!vars => AgentInv'
  BY AgentKeeps
<1> QED BY <1>1, <1>2, PTL DEF G!Spec

\* Every state of a run's session, calls and money is one agent.ts can be in.
THEOREM AgentTypeOK == ASSUME G!AgentAssumption PROVE G!Spec => []G!TypeOK
<1>1. AgentInv => G!TypeOK
  BY DEF Phases, AgentInv, AgentTypes, RunKeeps, CallsCounted, G!TypeOK, InTurns, Reasons, Sessions,
         CallRecords
<1> QED BY <1>1, AgentInvHolds, PTL

\* Outside a turn the ledger holds exactly what the run's sessions reported, over any number
\* of turns, sessions, attempts and breaks: a cumulative cost is booked once (agent.ts, 600-640).
THEOREM AgentLedgerIsReported == ASSUME G!AgentAssumption PROVE G!Spec => []G!LedgerIsReported
<1>1. AgentInv => G!LedgerIsReported
  BY DEF AgentInv, RunKeeps, Accounts, InTurns, G!LedgerIsReported
<1> QED BY <1>1, AgentInvHolds, PTL

\* A run's turns together make at most max_tool_calls calls the agent asked for, in whatever
\* order calls are asked for, started unasked and repeated (agent.ts, 195-204).
THEOREM AgentAllowedWithinCap == ASSUME G!AgentAssumption PROVE G!Spec => []G!AllowedWithinCap
<1>1. AgentInv => G!AllowedWithinCap
  BY SameCardinality DEF AgentInv, RunKeeps, CallsCounted, G!AllowedWithinCap
<1> QED BY <1>1, AgentInvHolds, PTL

\* The agent works only while its run watches the turn: when the runner gives a turn up its
\* process has been stopped (agent.ts, 586-595).
THEOREM AgentNoUnwatchedTurn == ASSUME G!AgentAssumption PROVE G!Spec => []G!NoUnwatchedTurn
<1>1. AgentInv => G!NoUnwatchedTurn
  BY DEF AgentInv, RunKeeps, Watched, G!NoUnwatchedTurn
<1> QED BY <1>1, AgentInvHolds, PTL

\* A run that succeeds kept its budget and ran no call outside its policy unasked.
THEOREM AgentSucceedsCleanly == ASSUME G!AgentAssumption PROVE G!Spec => []G!SucceedsCleanly
<1>1. AgentInv => G!SucceedsCleanly
  BY DEF AgentInv, RunKeeps, Watched, InTurns, G!SucceedsCleanly
<1> QED BY <1>1, AgentInvHolds, PTL

-----------------------------------------------------------------------------
(***************************************************************************)
(* Host: one session at a time                                             *)
(***************************************************************************)

\* The session is the newest connection's and waits for nobody; a process nobody terminated
\* is the session's; a connection waits only once it has come.
HostInv ==
  /\ H!TypeOK
  /\ current # 0 => current = generation /\ waitsFor[current] = 0
  /\ \A c \in HostConns : /\ proc[c] = "alive" => current = c
                          /\ sock[c] = "open" => current = c \/ waitsFor[c] # 0
                          /\ waitsFor[c] # 0 => c <= generation

LEMMA HostStarts == ASSUME H!HostAssumption, H!Init PROVE HostInv
BY DEF H!HostAssumption, H!Init, HostInv, H!TypeOK

\* A connection comes, or one that waited goes on.
LEMMA HostConnects ==
  ASSUME H!HostAssumption, HostInv, NEW c \in HostConns, NEW prepared \in BOOLEAN,
         H!Replace(c) \/ H!Connect(c, prepared) \/ H!Continue(c, prepared)
  PROVE  HostInv'
<1>t. HostConns \subseteq Nat /\ 0 \notin HostConns /\ H!TypeOK
  BY DEF H!HostAssumption, HostInv
<1>1. CASE H!Replace(c)
  <2>1. H!TypeOK'
    BY <1>t, <1>1 DEF H!Replace, H!TypeOK, H!Terminated
  <2>2. \A d \in HostConns : /\ proc'[d] = "alive" => current' = d
                             /\ sock'[d] = "open" => current' = d \/ waitsFor'[d] # 0
                             /\ waitsFor'[d] # 0 => d <= generation'
    BY <1>t, <1>1 DEF H!Replace, H!TypeOK, H!Terminated, HostInv
  <2>3. current' = 0
    BY <1>1 DEF H!Replace
  <2> QED BY <2>1, <2>2, <2>3 DEF HostInv
<1>2. CASE H!Connect(c, prepared)
  <2>1. H!TypeOK'
    BY <1>t, <1>2 DEF H!Connect, H!TypeOK
  <2>2. \A d \in HostConns : /\ proc'[d] = "alive" => current' = d
                             /\ sock'[d] = "open" => current' = d \/ waitsFor'[d] # 0
                             /\ waitsFor'[d] # 0 => d <= generation'
    BY <1>t, <1>2 DEF H!Connect, H!TypeOK, HostInv
  <2>3. waitsFor[c] = 0
    BY <1>t, <1>2 DEF H!Connect, H!TypeOK, HostInv
  <2>4. current' # 0 => current' = generation' /\ waitsFor'[current'] = 0
    BY <1>2, <2>3 DEF H!Connect
  <2> QED BY <2>1, <2>2, <2>4 DEF HostInv
<1>3. CASE H!Continue(c, prepared)
  <2>1. H!TypeOK'
    BY <1>t, <1>3 DEF H!Continue, H!Session, H!TypeOK
  <2>2. current # c /\ (c = generation => current = 0)
    BY <1>t, <1>3 DEF H!Continue, H!TypeOK, HostInv
  <2>3. \A d \in HostConns : /\ proc'[d] = "alive" => current' = d
                             /\ sock'[d] = "open" => current' = d \/ waitsFor'[d] # 0
                             /\ waitsFor'[d] # 0 => d <= generation'
    BY <1>t, <1>3, <2>2 DEF H!Continue, H!Session, H!Spawns, H!TypeOK, HostInv
  <2>4. current' # 0 => current' = generation' /\ waitsFor'[current'] = 0
    BY <1>t, <1>3, <2>2 DEF H!Continue, H!Session, H!Spawns, H!TypeOK, HostInv
  <2> QED BY <2>1, <2>3, <2>4 DEF HostInv
<1> QED BY <1>1, <1>2, <1>3

\* A connection or a process ends, or the host stops.
LEMMA HostEnds ==
  ASSUME H!HostAssumption, HostInv,
         (\E c \in HostConns : H!CoreCloses(c) \/ H!OnClose(c) \/ H!Exit(c)) \/ H!Stop
  PROVE  HostInv'
<1>t. HostConns \subseteq Nat /\ 0 \notin HostConns /\ H!TypeOK
  BY DEF H!HostAssumption, HostInv
<1>1. ASSUME NEW c \in HostConns, H!CoreCloses(c) PROVE HostInv'
  BY <1>t, <1>1 DEF H!CoreCloses, H!TypeOK, HostInv
<1>2. ASSUME NEW c \in HostConns, H!OnClose(c) PROVE HostInv'
  BY <1>t, <1>2 DEF H!OnClose, H!TypeOK, H!Terminated, HostInv
<1>3. ASSUME NEW c \in HostConns, H!Exit(c) PROVE HostInv'
  BY <1>t, <1>3 DEF H!Exit, H!TypeOK, HostInv
<1>4. CASE H!Stop
  <2>1. H!TypeOK' /\ current' = 0
    <3>1. /\ serving' \in BOOLEAN /\ current' = 0 /\ waitsFor' = waitsFor
          /\ generation' = generation + 1
      BY <1>4 DEF H!Stop
    <3>2. generation' \in Nat /\ waitsFor' \in [HostConns -> HostConns \cup {0}]
      BY <1>t, <3>1 DEF H!TypeOK
    <3>3. sock' \in [HostConns -> {"none", "open", "closed", "gone"}]
      BY <1>t, <1>4 DEF H!Stop, H!TypeOK
    <3>4. proc' \in [HostConns -> {"none", "alive", "terminated", "dead"}]
      BY <1>t, <1>4 DEF H!Stop, H!TypeOK, H!Terminated
    <3> QED BY <3>1, <3>2, <3>3, <3>4 DEF H!TypeOK
  <2>2. \A d \in HostConns : /\ proc'[d] = "alive" => current' = d
                             /\ sock'[d] = "open" => current' = d \/ waitsFor'[d] # 0
                             /\ waitsFor'[d] # 0 => d <= generation'
    BY <1>t, <1>4 DEF H!Stop, H!TypeOK, H!Terminated, HostInv
  <2> QED BY <2>1, <2>2 DEF HostInv
<1> QED BY <1>1, <1>2, <1>3, <1>4

LEMMA HostInvHolds == ASSUME H!HostAssumption PROVE H!Spec => []HostInv
<1>1. H!Init => HostInv
  BY HostStarts
<1>2. ASSUME HostInv, [H!Next]_H!vars PROVE HostInv'
  <2>1. CASE UNCHANGED H!vars
    BY <1>2, <2>1 DEF H!vars, HostInv, H!TypeOK
  <2>2. CASE H!Next
    BY <1>2, <2>2, HostConnects, HostEnds DEF H!Next
  <2> QED BY <1>2, <2>1, <2>2
<1> QED BY <1>1, <1>2, PTL DEF H!Spec

\* Of any number of connections that overtake one another, one process at most is the
\* session's, and a connection that stays open has the session or waits for it
\* (host.ts, serveSocket).
THEOREM HostOneSession == ASSUME H!HostAssumption PROVE H!Spec => []H!OneSession
<1> DEFINE Living == {c \in HostConns : proc[c] = "alive"}
<1>1. HostInv => H!OneSession
  <2> SUFFICES ASSUME HostInv PROVE H!OneSession
    OBVIOUS
  <2>1. \A c, d \in Living : c = d
    BY DEF HostInv
  <2>2. Cardinality(Living) <= 1
    <3>1. CASE Living = {}
      BY <3>1, FS_EmptySet
    <3>2. ASSUME NEW c \in Living PROVE Cardinality(Living) <= 1
      <4>1. Living = {c}
        BY <2>1
      <4>2. Cardinality({c}) = 1
        BY FS_Singleton
      <4> QED BY <4>1, <4>2
    <3> QED BY <3>1, <3>2
  <2>3. H!Cardinality(Living) = Cardinality(Living)
    BY DEF Cardinality, H!Cardinality
  <2> QED BY <2>2, <2>3 DEF HostInv, H!OneSession
<1> QED BY <1>1, HostInvHolds, PTL

-----------------------------------------------------------------------------
(***************************************************************************)
(* Process: nothing of a group outlives what the core says of it           *)
(***************************************************************************)
GroupDead == alive \cap X!Group = {}
NotStarted == launch \in {"none", "proxied", "unwanted"}

\* Before the launch nothing runs; the group is dead once its leader was seen to exit, once
\* an agent's launch failed, and once the daemon is gone.
GroupInv ==
  /\ X!TypeOK /\ Launchers \subseteq {"stdio", "acp", "none"}
  /\ NotStarted => alive = {} /\ ~swept /\ stop = "no"
  /\ swept \/ ~daemon => GroupDead
  /\ ended => swept
  /\ stop = "done" => ended \/ launch = "rejected"
  /\ launch \in {"spawned", "failing", "rejected"} => kind # "none"
  /\ launch \in {"failing", "rejected"} => (kind = "acp" /\ GroupDead) \/ (kind = "stdio")
  /\ launch = "rejected" /\ kind = "stdio" => ended

CallInv ==
  /\ ended => call # "flight" /\ proxy # "open"
  /\ launch \in {"rejected", "unwanted"} => proxy # "open"
  /\ call = "flight" => launch = "up"

LEMMA GroupStarts == ASSUME X!ProcessAssumption, X!Init PROVE GroupInv /\ CallInv
BY DEF X!ProcessAssumption, X!Init, X!TypeOK, X!Group, X!Stray, GroupInv, CallInv, GroupDead,
       NotStarted

\* The steps that launch and that let processes fork and exit.
LEMMA LaunchKeeps ==
  ASSUME GroupInv, CallInv,
         \/ X!OpenProxy \/ X!Abort \/ X!Unwanted \/ X!Spawn \/ X!Initialized \/ X!Fails
         \/ X!Rejects \/ \E p \in X!Group \cup X!Stray : X!Forks(p) \/ X!Exits(p)
  PROVE  GroupInv' /\ CallInv'
<1> USE DEF GroupInv, CallInv, GroupDead, NotStarted, X!TypeOK, X!Group, X!Stray
<1>1. CASE X!OpenProxy
  BY <1>1 DEF X!OpenProxy
<1>2. CASE X!Abort
  BY <1>2 DEF X!Abort
<1>3. CASE X!Unwanted
  BY <1>3 DEF X!Unwanted
<1>4. CASE X!Spawn
  BY <1>4 DEF X!Spawn
<1>5. CASE X!Initialized
  BY <1>5 DEF X!Initialized
<1>6. CASE X!Fails
  BY <1>6 DEF X!Fails
<1>7. CASE X!Rejects
  BY <1>7 DEF X!Rejects
<1>8. ASSUME NEW p \in X!Group \cup X!Stray, X!Forks(p) PROVE GroupInv' /\ CallInv'
  BY <1>8 DEF X!Forks
<1>9. ASSUME NEW p \in X!Group \cup X!Stray, X!Exits(p) PROVE GroupInv' /\ CallInv'
  BY <1>9 DEF X!Exits
<1> QED BY <1>1, <1>2, <1>3, <1>4, <1>5, <1>6, <1>7, <1>8, <1>9

\* The steps of calls, the sweep and the stop.
LEMMA StopKeeps ==
  ASSUME GroupInv, CallInv,
         \/ X!Call \/ X!Answered \/ X!Sweep \/ X!Release \/ X!BeginStop \/ X!Terminate \/ X!Kill
         \/ X!Stopped \/ X!DaemonExits
  PROVE  GroupInv' /\ CallInv'
<1> USE DEF GroupInv, CallInv, GroupDead, NotStarted, X!TypeOK, X!Group, X!Stray
<1>1. CASE X!Call
  BY <1>1 DEF X!Call
<1>2. CASE X!Answered
  BY <1>2 DEF X!Answered
<1>3. CASE X!Sweep
  BY <1>3 DEF X!Sweep, X!Swept
<1>4. CASE X!Release
  BY <1>4 DEF X!Release
<1>5. CASE X!BeginStop
  BY <1>5 DEF X!BeginStop
<1>6. CASE X!Terminate
  BY <1>6 DEF X!Terminate
<1>7. CASE X!Kill
  BY <1>7 DEF X!Kill
<1>8. CASE X!Stopped
  BY <1>8 DEF X!Stopped
<1>9. CASE X!DaemonExits
  <2>1. /\ daemon' = FALSE /\ alive' \subseteq alive
        /\ UNCHANGED <<kind, swept, ended, launch, aborted, stop, call, proxy>>
    BY <1>9 DEF X!DaemonExits
  <2>2. GroupDead'
    <3>1. CASE X!Listed
      BY <1>9, <3>1 DEF X!DaemonExits
    <3>2. CASE ~X!Listed
      BY <1>9, <3>2 DEF X!DaemonExits, X!Listed
    <3> QED BY <3>1, <3>2
  <2>3. X!TypeOK' /\ CallInv'
    BY <2>1
  <2>4. NotStarted' => alive' = {} /\ ~swept' /\ stop' = "no"
    BY <2>1
  <2> QED BY <2>1, <2>2, <2>3, <2>4
<1> QED BY <1>1, <1>2, <1>3, <1>4, <1>5, <1>6, <1>7, <1>8, <1>9

LEMMA GroupInvHolds == ASSUME X!ProcessAssumption PROVE X!Spec => [](GroupInv /\ CallInv)
<1>1. X!Init => GroupInv /\ CallInv
  BY GroupStarts
<1>2. GroupInv /\ CallInv /\ [X!Next]_X!vars => GroupInv' /\ CallInv'
  <2> SUFFICES ASSUME GroupInv, CallInv, [X!Next]_X!vars PROVE GroupInv' /\ CallInv'
    OBVIOUS
  <2>1. CASE UNCHANGED X!vars
    BY <2>1 DEF X!vars, GroupInv, CallInv, GroupDead, NotStarted, X!TypeOK
  <2>2. CASE X!Next
    BY <2>2, LaunchKeeps, StopKeeps DEF X!Next
  <2> QED BY <2>1, <2>2
<1> QED BY <1>1, <1>2, PTL DEF X!Spec

\* When the core says a process has ended, its launch failed or the daemon is gone, nothing of
\* its group runs, no op waits for it and its proxy is closed (process-group.ts, 54-58).
THEOREM ProcessGoneWhenSaid == ASSUME X!ProcessAssumption PROVE X!Spec => []X!GoneWhenSaid
<1>1. GroupInv /\ CallInv => X!GoneWhenSaid
  BY DEF GroupInv, CallInv, GroupDead, NotStarted, X!GoneWhenSaid, X!Group, X!Stray, X!TypeOK
<1> QED BY <1>1, GroupInvHolds, PTL

-----------------------------------------------------------------------------
(***************************************************************************)
(* Scrape: what the metrics listener holds                                 *)
(***************************************************************************)
Only(a) == {a} \ {Y!Off}
Settled == lost \/ wanted = served

\* What is held at each step of a move, and which of its addresses are there.
ListenerInv ==
  /\ wanted \in Y!Wishes /\ job \in Y!Wishes /\ old \in Y!Wishes /\ queue \in Seq(Y!Wishes)
  /\ step \in {"idle", "bind", "closeOld", "rebind", "restore", "stopOld"}
  /\ step = "idle" => held = Only(wanted) /\ Settled
  /\ step = "bind" => /\ held = Only(wanted) /\ Settled /\ old = wanted
                      /\ job # Y!Off /\ job # wanted
  /\ step = "stopOld" => /\ held = {old} \cup Only(wanted) /\ wanted = served
                         /\ old # Y!Off /\ old # wanted
  /\ step \in {"closeOld", "rebind", "restore"} =>
       /\ wanted = Y!Off /\ old # Y!Off /\ job # Y!Off /\ (lost \/ old = served)
       /\ held = IF step = "closeOld" THEN {old} ELSE {}

\* A close is in the queue, or its turn has come.
CloseInv ==
  closed /\ queue = <<>> => wanted = Y!Off /\ step \in {"idle", "stopOld"}

LEMMA ListenerStarts == ASSUME Y!Init PROVE ListenerInv /\ CloseInv
BY DEF Y!Init, Y!Wishes, ListenerInv, CloseInv, Only, Settled

LEMMA ListenerAsked ==
  ASSUME ListenerInv, CloseInv, NEW a \in Y!Wishes, Y!Configure(a) \/ Y!Close
  PROVE  ListenerInv' /\ CloseInv'
<1>1. CASE Y!Configure(a)
  <2>1. queue' \in Seq(Y!Wishes) /\ queue' # <<>>
    BY <1>1 DEF Y!Configure, ListenerInv
  <2> QED BY <1>1, <2>1 DEF Y!Configure, ListenerInv, CloseInv, Settled
<1>2. CASE Y!Close
  <2>1. queue' \in Seq(Y!Wishes) /\ queue' # <<>>
    BY <1>2 DEF Y!Close, ListenerInv, Y!Wishes
  <2> QED BY <1>2, <2>1 DEF Y!Close, ListenerInv, CloseInv, Settled
<1> QED BY <1>1, <1>2

LEMMA ListenerBegins == ASSUME ListenerInv, CloseInv, Y!Begin PROVE ListenerInv' /\ CloseInv'
<1>1. PICK a \in Y!Wishes :
        /\ a = Y!Applied(Head(queue)) /\ (closed => a = Y!Off)
        /\ job' = a /\ old' = wanted
        /\ IF a = wanted THEN step' = "idle" /\ UNCHANGED <<wanted, served, lost>>
           ELSE IF a = Y!Off
             THEN step' = "stopOld" /\ wanted' = Y!Off /\ served' = Y!Off /\ lost' = FALSE
             ELSE step' = "bind" /\ UNCHANGED <<wanted, served, lost>>
  <2>1. Head(queue) \in Y!Wishes
    BY DEF Y!Begin, ListenerInv
  <2>2. Y!Applied(Head(queue)) \in Y!Wishes /\ (closed => Y!Applied(Head(queue)) = Y!Off)
    BY <2>1 DEF Y!Applied, Y!Granted, Y!Wishes
  <2> QED BY <2>2 DEF Y!Begin
<1>2. /\ step = "idle" /\ queue' \in Seq(Y!Wishes) /\ UNCHANGED <<held, others, closed>>
      /\ held = Only(wanted) /\ Settled
  BY DEF Y!Begin, ListenerInv
<1>3. ListenerInv'
  BY <1>1, <1>2 DEF ListenerInv, Only, Settled, Y!Wishes
<1>4. CloseInv'
  BY <1>1, <1>2 DEF CloseInv
<1> QED BY <1>3, <1>4

LEMMA ListenerMoves ==
  ASSUME ListenerInv, CloseInv, Y!Bind \/ Y!StopOld \/ Y!Rebind \/ Y!Restore \/ Y!Elsewhere
  PROVE  ListenerInv' /\ CloseInv'
<1> USE DEF ListenerInv, CloseInv, Only, Settled
<1>1. CASE Y!Bind
  <2>b. step = "bind" /\ UNCHANGED <<others, queue, job, old, closed>>
    BY <1>1 DEF Y!Bind
  <2>1. CASE Y!Listens(IF old = Y!Off THEN "idle" ELSE "stopOld")
    <3>1. /\ held' = Only(wanted) \cup {job} /\ wanted' = job /\ served' = job /\ lost' = FALSE
          /\ step' = IF old = Y!Off THEN "idle" ELSE "stopOld"
      BY <2>b, <2>1 DEF Y!Listens
    <3>2. CASE old = Y!Off
      BY <2>b, <3>1, <3>2
    <3>3. CASE old # Y!Off
      BY <2>b, <3>1, <3>3
    <3> QED BY <3>2, <3>3
  <2>2. CASE step' = "idle" /\ UNCHANGED <<wanted, held, served, lost>>
    BY <2>b, <2>2
  <2>3. CASE /\ old # Y!Off /\ wanted' = Y!Off /\ step' = "closeOld"
             /\ UNCHANGED <<held, served, lost>>
    BY <2>b, <2>3 DEF Y!Wishes
  <2> QED BY <1>1, <2>1, <2>2, <2>3 DEF Y!Bind
<1>2. CASE Y!StopOld
  BY <1>2 DEF Y!StopOld
<1>3. CASE Y!Rebind
  BY <1>3 DEF Y!Rebind, Y!Listens, Y!NextAfterRefusal, Y!AfterRefusal
<1>4. CASE Y!Restore
  BY <1>4 DEF Y!Restore
<1>5. CASE Y!Elsewhere
  BY <1>5 DEF Y!Elsewhere
<1> QED BY <1>1, <1>2, <1>3, <1>4, <1>5

LEMMA ListenerInvHolds == Y!Spec => [](ListenerInv /\ CloseInv)
<1>1. Y!Init => ListenerInv /\ CloseInv
  BY ListenerStarts
<1>2. ListenerInv /\ CloseInv /\ [Y!Next]_Y!vars => ListenerInv' /\ CloseInv'
  <2> SUFFICES ASSUME ListenerInv, CloseInv, [Y!Next]_Y!vars PROVE ListenerInv' /\ CloseInv'
    OBVIOUS
  <2>1. CASE UNCHANGED Y!vars
    BY <2>1 DEF Y!vars, ListenerInv, CloseInv, Only, Settled
  <2>2. ASSUME NEW a \in Y!Wishes, Y!Configure(a) PROVE ListenerInv' /\ CloseInv'
    BY <2>2, ListenerAsked
  <2>3. CASE Y!Close
    BY <2>3, ListenerAsked DEF Y!Wishes
  <2>4. CASE Y!Begin
    BY <2>4, ListenerBegins
  <2>5. CASE Y!Bind \/ Y!StopOld \/ Y!Rebind \/ Y!Restore \/ Y!Elsewhere
    BY <2>5, ListenerMoves
  <2> QED BY <2>1, <2>2, <2>3, <2>4, <2>5 DEF Y!Next
<1> QED BY <1>1, <1>2, PTL DEF Y!Spec

\* At rest the daemon listens on the address last configured with success and on nothing else,
\* whichever binds failed and whoever took an address meanwhile (api/metrics-server.ts).
THEOREM ScrapeListenerKept == Y!Spec => []Y!ListenerKept
<1>1. ListenerInv => Y!ListenerKept
  BY DEF ListenerInv, Only, Settled, Y!ListenerKept, Y!Wishes
<1> QED BY <1>1, ListenerInvHolds, PTL

\* After close() a configure that still waits, or comes later, leaves nothing listening.
THEOREM ScrapeClosedStaysClosed == Y!Spec => []Y!ClosedStaysClosed
<1>1. ListenerInv /\ CloseInv => Y!ClosedStaysClosed
  BY DEF ListenerInv, CloseInv, Only, Y!ClosedStaysClosed
<1> QED BY <1>1, ListenerInvHolds, PTL

-----------------------------------------------------------------------------
(***************************************************************************)
(* Bridge: only granted calls                                              *)
(***************************************************************************)

\* A pair of a connector and an op the run may call.
Granted(k, o) ==
  /\ k \in DOMAIN Grants /\ B!Allows(k, o)
  /\ Grants[k] = {} => o \in Serves[k]

\* What is known of a connection and its call at each of its steps.
ConnectionInv(c) ==
  /\ sock[c] \in {"hello", "served"} => bridge = "open"
  /\ sock[c] = "served" => serves[c] \in DOMAIN Grants
  /\ call[c] \in B!InFlight =>
       sock[c] = "served" /\ bridge = "open" /\ run = "on" /\ B!Allows(serves[c], op[c])
  /\ call[c] = "calling" => Granted(serves[c], op[c])

BridgeInv ==
  /\ B!TypeOK /\ \A c \in Conns : ConnectionInv(c)
  /\ \A x \in ran : Granted(x[1], x[2])

LEMMA BridgeStarts == ASSUME B!Init PROVE BridgeInv
BY DEF B!Init, B!TypeOK, B!InFlight, BridgeInv, ConnectionInv

\* The bridge listens and closes, the run aborts, an agent hangs up.
LEMMA BridgeEnds ==
  ASSUME BridgeInv, B!Listen \/ B!Abort \/ B!Close \/ B!Closed \/ \E c \in Conns : B!HangsUp(c)
  PROVE  BridgeInv'
<1> USE DEF BridgeInv, ConnectionInv, B!TypeOK, B!InFlight
<1>1. CASE B!Listen
  BY <1>1 DEF B!Listen
<1>2. CASE B!Abort
  BY <1>2 DEF B!Abort, B!Hung
<1>3. CASE B!Close
  BY <1>3 DEF B!Close, B!Hung, B!Dropped
<1>4. CASE B!Closed
  BY <1>4 DEF B!Closed
<1>5. ASSUME NEW c \in Conns, B!HangsUp(c) PROVE BridgeInv'
  BY <1>5 DEF B!HangsUp, B!Hung
<1> QED BY <1>1, <1>2, <1>3, <1>4, <1>5

\* A connection says hello and its call goes on.
LEMMA BridgeServes ==
  ASSUME B!BridgeAssumption, BridgeInv, NEW c \in Conns,
         \/ B!Connects(c) \/ B!Listed(c) \/ B!Returns(c) \/ B!Fails(c)
         \/ \E t \in BOOLEAN, k \in Connectors : B!Hello(c, t, k)
         \/ \E o \in Ops : B!Calls(c, o)
  PROVE  BridgeInv'
<1> USE DEF BridgeInv, ConnectionInv, B!TypeOK, B!InFlight
<1>1. CASE B!Connects(c)
  BY <1>1 DEF B!Connects
<1>2. CASE B!Listed(c)
  BY <1>2 DEF B!Listed, B!Known, Granted
<1>3. CASE B!Returns(c)
  <2>1. Granted(serves[c], op[c])
    BY <1>3 DEF B!Returns
  <2>2. \A x \in ran' : Granted(x[1], x[2])
    BY <1>3, <2>1 DEF B!Returns
  <2> QED BY <1>3, <2>2 DEF B!Returns
<1>4. CASE B!Fails(c)
  BY <1>4 DEF B!Fails
<1>5. ASSUME NEW t \in BOOLEAN, NEW k \in Connectors, B!Hello(c, t, k) PROVE BridgeInv'
  BY <1>5 DEF B!Hello
<1>6. ASSUME NEW o \in Ops, B!Calls(c, o) PROVE BridgeInv'
  BY <1>6 DEF B!Calls, B!Live, Granted
<1> QED BY <1>1, <1>2, <1>3, <1>4, <1>5, <1>6

LEMMA BridgeInvHolds == ASSUME B!BridgeAssumption PROVE B!Spec => []BridgeInv
<1>1. B!Init => BridgeInv
  BY BridgeStarts
<1>2. BridgeInv /\ [B!Next]_B!vars => BridgeInv'
  <2> SUFFICES ASSUME BridgeInv, [B!Next]_B!vars PROVE BridgeInv'
    OBVIOUS
  <2>1. CASE UNCHANGED B!vars
    BY <2>1 DEF B!vars, BridgeInv, ConnectionInv, B!TypeOK
  <2>2. CASE B!Next
    BY <2>2, BridgeEnds, BridgeServes DEF B!Next
  <2> QED BY <2>1, <2>2
<1> QED BY <1>1, <1>2, PTL DEF B!Spec

\* A call is forwarded only when the run was granted it, and none goes on once the run is
\* aborted, the bridge closed or the agent gone (connectors/mcp-bridge.ts, 8-12).
THEOREM BridgeOnlyGrantedCalls == ASSUME B!BridgeAssumption PROVE B!Spec => []B!OnlyGrantedCalls
<1>1. BridgeInv => B!OnlyGrantedCalls
  BY DEF BridgeInv, ConnectionInv, Granted, B!OnlyGrantedCalls
<1> QED BY <1>1, BridgeInvHolds, PTL

-----------------------------------------------------------------------------
(***************************************************************************)
(* Reload: what the parts of the core are configured with                  *)
(***************************************************************************)
Turns ==
  [step : {"idle", "configure", "apply", "stopPollers", "startPollers", "switch", "undo",
           "undoPollers"},
   agent : Versions, tasks : Versions]
Actives == [agent : Versions, tasks : Versions, cron : Versions]

ReloadTypes ==
  /\ disk \in Versions /\ queue \in Seq(Versions) /\ turn \in Turns /\ active \in Actives
  /\ agents \in Versions /\ conns \in Versions
  /\ 0 \in Versions /\ Builtin \in [Versions -> SUBSET Keys]

\* The pollers listed are those that run, but for those stopped until the next are started.
PollersInv ==
  life = "up" =>
    running = IF turn.step = "startPollers" THEN pollers \cap Builtin[turn.agent]
              ELSE IF turn.step = "undoPollers" THEN pollers \cap Builtin[active.agent]
              ELSE pollers

\* What the reload whose turn it is was checked for, and what it has brought so far.
TurnInv ==
  /\ A!Checked(active.agent, active.tasks)
  /\ turn.step \notin {"idle", "undo", "undoPollers"} => A!Checked(turn.agent, turn.tasks)
  /\ turn.step \in {"apply", "stopPollers", "startPollers", "switch"} => agents = turn.agent
  /\ turn.step \in {"stopPollers", "startPollers", "switch"} => conns = turn.agent
  /\ turn.step = "switch" => pollers = Builtin[turn.agent]
  /\ turn.step = "undoPollers" => agents = active.agent /\ conns = active.agent

\* Nothing half done is left, unless an undo or a switch failed.
RestInv ==
  ~broken =>
    /\ active.cron = active.tasks
    /\ turn.step = "idle" =>
         agents = active.agent /\ conns = active.agent /\ pollers = Builtin[active.agent]

ReloadInv == ReloadTypes /\ PollersInv /\ TurnInv /\ RestInv

LEMMA ReloadStarts == ASSUME A!ReloadAssumption, A!Init PROVE ReloadInv
BY DEF A!ReloadAssumption, A!Init, A!Idle, A!Checked, ReloadInv, ReloadTypes, PollersInv, TurnInv,
       RestInv, Turns, Actives

\* Reloads are asked for and begin; the core stops.
LEMMA ReloadBegins ==
  ASSUME ReloadInv, A!Edit \/ A!Ask \/ A!Turn \/ A!Stop \/ A!Stopped
  PROVE  ReloadInv'
<1> USE DEF ReloadInv, ReloadTypes, PollersInv, TurnInv, RestInv, Turns, Actives
<1>1. CASE A!Edit
  BY <1>1 DEF A!Edit
<1>2. CASE A!Ask
  <2>1. queue' \in Seq(Versions)
    BY <1>2 DEF A!Ask
  <2> QED BY <1>2, <2>1 DEF A!Ask
<1>3. CASE A!Turn
  <2>1. Head(queue) \in Versions /\ queue' \in Seq(Versions) /\ turn.step = "idle"
    BY <1>3 DEF A!Turn, A!Held
  <2>2. UNCHANGED <<disk, agents, conns, pollers, running, active, broken, life>>
    BY <1>3 DEF A!Turn
  <2>3. turn' \in Turns
    BY <1>3, <2>1 DEF A!Turn, A!Idle
  <2>4. \/ turn'.step = "configure" /\ A!Checked(turn'.agent, turn'.tasks)
        \/ turn'.step = "idle"
    BY <1>3 DEF A!Turn, A!Idle, A!Checked
  <2> QED BY <2>1, <2>2, <2>3, <2>4 DEF A!Checked
<1>4. CASE A!Stop
  BY <1>4 DEF A!Stop, A!Checked
<1>5. CASE A!Stopped
  BY <1>5 DEF A!Stopped, A!Checked
<1> QED BY <1>1, <1>2, <1>3, <1>4, <1>5

\* The steps of a reload, a failure of each, and the undo.
LEMMA ReloadGoesOn ==
  ASSUME ReloadInv,
         \/ A!Configure \/ A!StopPollers \/ A!StartPollers \/ A!UndoPollers
         \/ \E ok \in BOOLEAN : A!Apply(ok) \/ A!Switch(ok) \/ A!Undo(ok)
  PROVE  ReloadInv'
<1> USE DEF ReloadInv, ReloadTypes, PollersInv, TurnInv, RestInv, Turns, Actives
<1>1. CASE A!Configure
  BY <1>1 DEF A!Configure, A!Goes, A!CoreStays, A!Checked
<1>2. CASE A!StopPollers
  BY <1>2 DEF A!StopPollers, A!Goes, A!CoreStays, A!Checked
<1>3. CASE A!StartPollers
  BY <1>3 DEF A!StartPollers, A!Lists, A!Started, A!AllStarted, A!Goes, A!CoreStays, A!Checked
<1>4. CASE A!UndoPollers
  BY <1>4 DEF A!UndoPollers, A!Lists, A!Started, A!AllStarted, A!Before, A!Done, A!Idle,
              A!CoreStays, A!Checked
<1>5. ASSUME NEW ok \in BOOLEAN, A!Apply(ok) PROVE ReloadInv'
  <2>1. \/ turn' = [turn EXCEPT !.step = "stopPollers"] \/ turn' = [turn EXCEPT !.step = "undo"]
    BY <1>5 DEF A!Apply, A!Goes
  <2>2. /\ turn.step = "apply" /\ conns' = turn.agent
        /\ UNCHANGED <<agents, pollers, running, broken, active, life, disk, queue>>
    BY <1>5 DEF A!Apply, A!CoreStays
  <2> QED BY <2>1, <2>2 DEF A!Checked
<1>6. ASSUME NEW ok \in BOOLEAN, A!Switch(ok) PROVE ReloadInv'
  <2>1. /\ turn.step = "switch" /\ turn' = [step |-> "idle", agent |-> 0, tasks |-> 0]
        /\ UNCHANGED <<disk, queue, agents, conns, pollers, running, life>>
    BY <1>6 DEF A!Switch, A!Done, A!Idle
  <2>2. PICK cron \in Versions :
          active' = [agent |-> turn.agent, tasks |-> turn.tasks, cron |-> cron]
    BY <1>6 DEF A!Switch
  <2>3. ~broken' => cron = turn.tasks
    BY <1>6, <2>2 DEF A!Switch
  <2> QED BY <2>1, <2>2, <2>3 DEF A!Checked
<1>7. ASSUME NEW ok \in BOOLEAN, A!Undo(ok) PROVE ReloadInv'
  <2>1. /\ turn.step = "undo" /\ agents' = active.agent /\ conns' = active.agent
        /\ UNCHANGED <<pollers, active, life, disk, queue>>
    BY <1>7 DEF A!Undo, A!Before, A!CoreStays
  <2>2. CASE ok
    BY <1>7, <2>1, <2>2 DEF A!Undo, A!Goes, A!Before, A!Checked
  <2>3. CASE ~ok
    BY <1>7, <2>1, <2>3 DEF A!Undo, A!Done, A!Idle, A!Checked
  <2> QED BY <2>2, <2>3
<1> QED BY <1>1, <1>2, <1>3, <1>4, <1>5, <1>6, <1>7

\* No run starts on half a reload: while none is under way, and unless an undo or a switch failed
\* itself, agents, connectors, pollers, tasks and cron jobs are those of one checked reload,
\* whatever was edited, asked for, failed and undone in between (core.ts, reload).
THEOREM ReloadNoHalfReload == ASSUME A!ReloadAssumption PROVE A!Spec => []A!NoHalfReload
<1>1. A!Init => ReloadInv
  BY ReloadStarts
<1>2. ReloadInv /\ [A!Next]_(A!vars) => ReloadInv'
  <2>1. ASSUME ReloadInv, A!Next PROVE ReloadInv'
    BY <2>1, ReloadBegins, ReloadGoesOn DEF A!Next
  <2>2. ASSUME ReloadInv, UNCHANGED A!vars PROVE ReloadInv'
    BY <2>2 DEF ReloadInv, ReloadTypes, PollersInv, TurnInv, RestInv, A!vars, A!Checked
  <2> QED BY <2>1, <2>2
<1>3. ReloadInv => A!NoHalfReload
  BY DEF ReloadInv, PollersInv, TurnInv, RestInv, A!NoHalfReload, A!Held
<1> QED BY <1>1, <1>2, <1>3, PTL DEF A!Spec

-----------------------------------------------------------------------------
(***************************************************************************)
(* Shell: the processes of a step                                          *)
(***************************************************************************)
Children == [started : BOOLEAN, exit : {"none", "zero", "other", "killed"}]
Aborts == [by : BOOLEAN, kill : {"none", "armed", "sent"}]
Outputs == [printed : 0 .. MaxPrinted, written : 0 .. MaxPrinted]

ShellTypes ==
  child \in Children /\ stop \in Aborts /\ output \in Outputs /\ MaxPrinted \in Nat

\* Before it starts a step has nothing; once it has an outcome its pipes stay closed.
RunnerInv ==
  /\ runner \in {"new", "waiting", "settled", "over"}
  /\ runner = "new" => ~stop.by /\ stop.kill = "none" /\ ~child.started
  /\ runner \in {"settled", "over"} => "leader" \notin alive /\ ~holds
  /\ runner # "over" => outcome = "none"
  /\ runner \in {"new", "over"} => output.written = output.printed

\* An abort signals what was started, and after the SIGKILL nothing of it runs.
AbortInv ==
  /\ ~child.started => alive = {} /\ ~holds
  /\ stop.kill = "armed" => stop.by
  /\ stop.kill = "sent" => alive = {} /\ ~holds
  /\ stop.by => signal /\ (stop.kill = "none" => ~child.started)
  /\ outcome = "aborted" => stop.by \/ alive = {}

ShellInv == ShellTypes /\ RunnerInv /\ AbortInv /\ J!OutcomeIsTrue

LEMMA ShellStarts == ASSUME J!ShellAssumption, J!Init PROVE ShellInv
<1>1. child \in Children
  BY DEF J!Init, Children
<1>2. stop \in Aborts
  BY DEF J!Init, Aborts
<1>3. output \in Outputs
  BY DEF J!ShellAssumption, J!Init, Outputs
<1>4. ~stop.by /\ ~child.started /\ stop.kill = "none" /\ child.exit = "none"
  BY DEF J!Init
<1>5. RunnerInv /\ AbortInv /\ J!OutcomeIsTrue
  <2>1. output.written = output.printed
    BY DEF J!Init
  <2> QED BY <1>4, <2>1 DEF J!Init, RunnerInv, AbortInv, J!OutcomeIsTrue
<1> QED BY <1>1, <1>2, <1>3, <1>5 DEF ShellInv, ShellTypes, J!ShellAssumption

\* The step starts or is refused; its command and the helper print, start and exit.
LEMMA ShellRuns ==
  ASSUME ShellInv,
         \/ J!Refuse \/ J!Begin \/ J!StartsHelper \/ J!LeaderExits \/ J!HelperExits \/ J!Prints
  PROVE  ShellInv'
<1>1. child \in Children /\ stop \in Aborts /\ output \in Outputs
  BY DEF ShellInv, ShellTypes
<1>2. CASE J!Refuse
  BY <1>2 DEF J!Refuse, ShellInv, ShellTypes, RunnerInv, AbortInv, J!OutcomeIsTrue
<1>3. CASE J!Begin
  <2>1. UNCHANGED <<mode, signal, holds, stop, output, outcome>>
    BY <1>3 DEF J!Begin
  <2>2. child'.exit = child.exit /\ child' \in Children
    <3>1. PICK b \in BOOLEAN : b = TRUE
      OBVIOUS
    <3>2. child' = [child EXCEPT !.started = b] \/ child' = child
      BY <1>3, <3>1 DEF J!Begin
    <3> QED BY <1>1, <3>2 DEF Children
  <2>3. child'.started \/ (child' = child /\ alive' = alive)
    BY <1>1, <1>3 DEF J!Begin, Children
  <2> QED BY <1>3, <2>1, <2>2, <2>3
       DEF J!Begin, ShellInv, ShellTypes, RunnerInv, AbortInv, J!OutcomeIsTrue
<1>4. CASE J!StartsHelper
  BY <1>4 DEF J!StartsHelper, ShellInv, ShellTypes, RunnerInv, AbortInv, J!OutcomeIsTrue
<1>5. CASE J!LeaderExits
  <2>1. child' \in Children /\ child'.started = child.started
    BY <1>1, <1>5 DEF J!LeaderExits, Children
  <2> QED BY <1>5, <2>1
       DEF J!LeaderExits, ShellInv, ShellTypes, RunnerInv, AbortInv, J!OutcomeIsTrue
<1>6. CASE J!HelperExits
  BY <1>6 DEF J!HelperExits, ShellInv, ShellTypes, RunnerInv, AbortInv, J!OutcomeIsTrue
<1>7. CASE J!Prints
  <2>1. output' \in Outputs
    BY <1>1, <1>7 DEF J!Prints, Outputs, ShellInv, ShellTypes
  <2>2. runner \notin {"new", "settled", "over"}
    BY <1>7 DEF J!Prints, J!PipesOpen, ShellInv, RunnerInv, AbortInv
  <2> QED BY <1>7, <2>1, <2>2
       DEF J!Prints, ShellInv, ShellTypes, RunnerInv, AbortInv, J!OutcomeIsTrue
<1> QED BY <1>2, <1>3, <1>4, <1>5, <1>6, <1>7

\* The abort, the SIGKILL after it, and the outcome.
LEMMA ShellEnds ==
  ASSUME ShellInv, J!Abort \/ J!ForceKill \/ J!Settles \/ J!Ends
  PROVE  ShellInv'
<1>1. child \in Children /\ stop \in Aborts /\ output \in Outputs
  BY DEF ShellInv, ShellTypes
<1>2. CASE J!Abort
  <2>1. UNCHANGED <<mode, runner, child, alive, holds, output, outcome>> /\ signal'
    BY <1>2 DEF J!Abort
  <2>2. CASE runner \in {"waiting", "settled"}
    <3>1. PICK b \in BOOLEAN : b = TRUE
      OBVIOUS
    <3>2. PICK kill \in {"armed", "none"} :
            (child.started => kill = "armed") /\ (~child.started => kill = "none")
      OBVIOUS
    <3>3. stop' = [by |-> b, kill |-> kill]
      BY <1>2, <2>2, <3>1, <3>2 DEF J!Abort, J!Signals
    <3>4. stop' \in Aborts /\ stop'.by = b /\ stop'.kill = kill
      BY <3>3 DEF Aborts
    <3> QED BY <2>1, <2>2, <3>1, <3>2, <3>4
         DEF ShellInv, ShellTypes, RunnerInv, AbortInv, J!OutcomeIsTrue
  <2>3. CASE runner \notin {"waiting", "settled"}
    BY <1>2, <2>1, <2>3 DEF J!Abort, ShellInv, ShellTypes, RunnerInv, AbortInv, J!OutcomeIsTrue
  <2> QED BY <2>2, <2>3
<1>3. CASE J!ForceKill
  <2>1. stop' \in Aborts /\ stop'.by = stop.by /\ stop'.kill = "sent" /\ stop.kill = "armed"
    BY <1>1, <1>3 DEF J!ForceKill, Aborts
  <2>2. child' \in Children /\ child'.started = child.started
    BY <1>1, <1>3 DEF J!ForceKill, Children
  <2> QED BY <1>3, <2>1, <2>2
       DEF J!ForceKill, ShellInv, ShellTypes, RunnerInv, AbortInv, J!OutcomeIsTrue
<1>4. CASE J!Settles
  BY <1>4 DEF J!Settles, J!PipesOpen, ShellInv, ShellTypes, RunnerInv, AbortInv, J!OutcomeIsTrue
<1>5. CASE J!Ends
  <2>1. output' \in Outputs /\ output'.written = output'.printed
    BY <1>1, <1>5 DEF J!Ends, Outputs
  <2>2. UNCHANGED <<mode, signal, child, alive, holds, stop>>
        /\ runner = "settled" /\ runner' = "over"
    BY <1>5 DEF J!Ends
  <2>3. J!OutcomeIsTrue'
    <3>1. outcome' = J!Outcome
      BY <1>5 DEF J!Ends
    <3>2. CASE stop.by
      BY <2>2, <3>1, <3>2 DEF J!Outcome, ShellInv, AbortInv, J!OutcomeIsTrue
    <3>3. CASE ~stop.by /\ child.exit \in {"none", "killed"}
      BY <2>2, <3>1, <3>3 DEF J!Outcome, J!OutcomeIsTrue
    <3>4. CASE ~stop.by /\ child.exit \in {"zero", "other"}
      BY <2>2, <3>1, <3>4 DEF J!Outcome, J!OutcomeIsTrue
    <3> QED BY <1>1, <3>2, <3>3, <3>4 DEF Children
  <2>4. outcome' = "aborted" => stop.by
    BY <1>1, <1>5 DEF J!Ends, J!Outcome, Children
  <2> QED BY <2>1, <2>2, <2>3, <2>4 DEF ShellInv, ShellTypes, RunnerInv, AbortInv
<1> QED BY <1>2, <1>3, <1>4, <1>5

LEMMA ShellInvHolds == ASSUME J!ShellAssumption PROVE J!Spec => []ShellInv
<1>1. J!Init => ShellInv
  BY ShellStarts
<1>2. ShellInv /\ [J!Next]_(J!vars) => ShellInv'
  <2>1. ASSUME ShellInv, J!Next PROVE ShellInv'
    BY <2>1, ShellRuns, ShellEnds DEF J!Next
  <2>2. ASSUME ShellInv, UNCHANGED J!vars PROVE ShellInv'
    BY <2>2 DEF ShellInv, ShellTypes, RunnerInv, AbortInv, J!OutcomeIsTrue, J!vars
  <2> QED BY <2>1, <2>2
<1> QED BY <1>1, <1>2, PTL DEF J!Spec

\* Nothing a shell step started runs on after an abort, whichever of its processes ended
\* first, unless the SIGKILL is still to come (shell.ts, onAbort and killGroup).
THEOREM ShellNothingRunsOn == ASSUME J!ShellAssumption PROVE J!Spec => []J!NothingRunsOn
<1>1. ShellInv => J!NothingRunsOn
  <2> SUFFICES ASSUME ShellInv PROVE J!NothingRunsOn
    OBVIOUS
  <2>1. stop.kill \in {"none", "armed", "sent"}
    BY DEF ShellInv, ShellTypes, Aborts
  <2> QED BY <2>1 DEF ShellInv, AbortInv, J!NothingRunsOn
<1> QED BY <1>1, ShellInvHolds, PTL

\* An aborted step never succeeds, one that was not aborted is never said to be, and a
\* result comes from a command that exited by itself (runShell).
THEOREM ShellOutcomeIsTrue == ASSUME J!ShellAssumption PROVE J!Spec => []J!OutcomeIsTrue
<1>1. ShellInv => J!OutcomeIsTrue
  BY DEF ShellInv
<1> QED BY <1>1, ShellInvHolds, PTL

\* Whatever the outcome, what the step printed is in its transcript (runShell, #89).
THEOREM ShellOutputKept == ASSUME J!ShellAssumption PROVE J!Spec => []J!OutputKept
<1>1. ShellInv => J!OutputKept
  BY DEF ShellInv, RunnerInv, J!OutputKept
<1> QED BY <1>1, ShellInvHolds, PTL

-----------------------------------------------------------------------------
(***************************************************************************)
(* NetProxy: two half-open ends                                            *)
(***************************************************************************)
Counted == [N!Results -> Nat]

ProxyTypes ==
  /\ client \in [Conns -> {"none", "open", "gone"}]
  /\ target \in [Conns -> Names \cup {"none", "bad"}]
  /\ upstream \in [Conns -> {"none", "connecting", "connected", "gone"}]
  /\ reached \in [Conns -> {"public", "private"} \cup {"none"}]
  /\ ended \in [Conns -> SUBSET {"client", "upstream"}] /\ owed \in [Conns -> Nat]
  /\ counts \in [Conns -> Counted] /\ answers \in [Conns -> Nat]

\* Where a connection is tells what was asked, counted, answered and ended.
EndsInv(c) ==
  /\ upstream[c] \in {"connecting", "connected"} =>
       client[c] = "open" /\ target[c] \in Exact \cup Below
  /\ client[c] = "none" => target[c] = "none" /\ upstream[c] = "none"
  /\ client[c] = "open" => upstream[c] # "gone" /\ answers[c] = 0
  /\ client[c] = "open" /\ upstream[c] = "none" => target[c] = "none"
  /\ client[c] # "gone" /\ upstream[c] # "connected" => N!Total(c) = 0 /\ answers[c] = 0
  /\ N!Total(c) <= 1 /\ answers[c] <= 1
  /\ upstream[c] \in {"none", "connecting"} => ended[c] = {}
  /\ ended[c] # {} /\ client[c] = "gone" => owed[c] = 0
  /\ target[c] = "none" => reached[c] = "none"
  /\ reached[c] = "private" => target[c] \in Exact

ProxyInv == ProxyTypes /\ \A c \in Conns : EndsInv(c)

\* A count goes up by one.
LEMMA OneCounted ==
  ASSUME ProxyTypes, NEW c \in Conns, NEW result \in N!Results, N!Count(c, result)
  PROVE  /\ counts' \in [Conns -> Counted] /\ N!Total(c)' = N!Total(c) + 1
         /\ \A d \in Conns \ {c} : N!Total(d)' = N!Total(d)
<1>1. counts[c] \in Counted
  BY DEF ProxyTypes
<1>2. counts' = [counts EXCEPT ![c] = [counts[c] EXCEPT ![result] = counts[c][result] + 1]]
  BY DEF N!Count
<1>3. [counts[c] EXCEPT ![result] = counts[c][result] + 1] \in Counted
  BY <1>1 DEF Counted
<1>4. counts' \in [Conns -> Counted]
  BY <1>2, <1>3 DEF ProxyTypes
<1>5. \A d \in Conns \ {c} : counts'[d] = counts[d]
  BY <1>2 DEF ProxyTypes
<1>6. \A x \in N!Results : counts'[c][x] = IF x = result THEN counts[c][x] + 1 ELSE counts[c][x]
  BY <1>1, <1>2 DEF ProxyTypes, Counted
<1>7. \A x \in N!Results : counts[c][x] \in Nat
  BY <1>1 DEF Counted
<1>8. N!Total(c)' = N!Total(c) + 1
  BY <1>6, <1>7 DEF N!Total, N!Results
<1> QED BY <1>4, <1>5, <1>8 DEF N!Total

LEMMA ProxyStarts == ASSUME N!Init PROVE ProxyInv
<1>1. counts \in [Conns -> Counted] /\ \A c \in Conns : N!Total(c) = 0
  BY DEF N!Init, N!NoCount, Counted, N!Total, N!Results
<1>2. ProxyTypes
  BY <1>1 DEF N!Init, ProxyTypes
<1> QED BY <1>1, <1>2 DEF N!Init, ProxyInv, EndsInv

\* A step of one connection changes nothing of the others.
LEMMA OtherConnections ==
  ASSUME ProxyInv, NEW c \in Conns, ProxyTypes', EndsInv(c)',
         \A d \in Conns \ {c} :
           /\ client'[d] = client[d] /\ target'[d] = target[d] /\ upstream'[d] = upstream[d]
           /\ reached'[d] = reached[d] /\ ended'[d] = ended[d] /\ owed'[d] = owed[d]
           /\ N!Total(d)' = N!Total(d) /\ answers'[d] = answers[d]
  PROVE  ProxyInv'
<1>1. ASSUME NEW d \in Conns \ {c} PROVE EndsInv(d)'
  BY <1>1 DEF ProxyInv, EndsInv
<1> QED BY <1>1 DEF ProxyInv

\* Clients connect and ask; the upstream is reached or not.
LEMMA ProxyAsked ==
  ASSUME N!NetProxyAssumption, ProxyInv, NEW c \in Conns,
         \/ N!Connects(c) \/ \E n \in Names \cup {"bad"} : N!Asks(c, n)
         \/ \E found \in SUBSET N!Addresses :
                      N!Connected(c, found) \/ N!CannotReach(c, found)
  PROVE  ProxyInv'
<1>1. ProxyTypes /\ EndsInv(c)
  BY DEF ProxyInv
<1>2. N!Total(c) \in Nat /\ answers[c] \in Nat
  BY <1>1 DEF ProxyTypes, Counted, N!Total, N!Results
<1>3. ASSUME UNCHANGED counts PROVE \A d \in Conns : N!Total(d)' = N!Total(d)
  BY <1>3 DEF N!Total
<1>4. CASE N!Connects(c)
  <2>1. CASE client' = [client EXCEPT ![c] = "open"] /\ UNCHANGED counts
    BY <1>1, <1>2, <1>3, <1>4, <2>1, OtherConnections DEF N!Connects, ProxyTypes, EndsInv
  <2>2. CASE client' = [client EXCEPT ![c] = "gone"] /\ N!Count(c, "dropped")
    <3>1. "dropped" \in N!Results
      BY DEF N!Results
    <3> QED BY <1>1, <1>2, <1>4, <2>2, <3>1, OneCounted, OtherConnections
            DEF N!Connects, ProxyTypes, EndsInv
  <2> QED BY <1>4, <2>1, <2>2 DEF N!Connects
<1>5. ASSUME NEW n \in Names \cup {"bad"}, N!Asks(c, n) PROVE ProxyInv'
  <2>1. /\ target' = [target EXCEPT ![c] = n] /\ client[c] = "open" /\ target[c] = "none"
        /\ UNCHANGED <<server, reached, ended, owed>>
    BY <1>5 DEF N!Asks
  <2>2. n # "none" /\ upstream[c] = "none"
    <3>1. "none" \notin Names
      BY DEF N!NetProxyAssumption
    <3>2. upstream[c] \in {"none", "connecting", "connected", "gone"}
      BY <1>1 DEF ProxyTypes
    <3> QED BY <1>1, <2>1, <3>1, <3>2 DEF EndsInv, N!NetProxyAssumption
  <2>3. CASE n = "bad"
    BY <1>1, <1>2, <1>3, <1>5, <2>1, <2>2, <2>3, OtherConnections
    DEF N!Asks, N!Reply, ProxyTypes, EndsInv
  <2>4. CASE n # "bad" /\ N!Rule(n) = "none"
    <3>1. "denied" \in N!Results
      BY DEF N!Results
    <3>2. N!Reply(c) /\ N!Count(c, "denied") /\ UNCHANGED upstream
      BY <1>5, <2>4 DEF N!Asks
    <3> QED BY <1>1, <1>2, <2>1, <2>2, <3>1, <3>2, OneCounted, OtherConnections
            DEF N!Reply, ProxyTypes, EndsInv
  <2>5. CASE n # "bad" /\ N!Rule(n) # "none"
    <3>1. n \in Exact \cup Below
      BY <2>5 DEF N!Rule
    <3>2. upstream' = [upstream EXCEPT ![c] = "connecting"] /\ UNCHANGED <<client, counts, answers>>
      BY <1>5, <2>5 DEF N!Asks
    <3> QED BY <1>1, <1>2, <1>3, <2>1, <2>2, <3>1, <3>2, OtherConnections DEF ProxyTypes, EndsInv
  <2> QED BY <2>3, <2>4, <2>5
<1>6. ASSUME NEW found \in SUBSET N!Addresses, N!Connected(c, found) PROVE ProxyInv'
  <2>1. PICK a \in N!Usable(target[c], found) : reached' = [reached EXCEPT ![c] = a]
    BY <1>6 DEF N!Connected
  <2>2. a \in {"public", "private"} /\ (a = "private" => target[c] \in Exact)
    BY <1>1, <1>6, <2>1 DEF N!Usable, N!Rule, N!Addresses, N!Connected, EndsInv
  <2>3. /\ upstream[c] = "connecting" /\ upstream' = [upstream EXCEPT ![c] = "connected"]
        /\ UNCHANGED <<server, client, target, ended, owed, answers>>
    BY <1>6 DEF N!Connected
  <2>4. "allowed" \in N!Results /\ N!Count(c, "allowed")
    BY <1>6 DEF N!Connected, N!Results
  <2>5. target[c] # "none"
    BY <1>1, <2>3 DEF N!NetProxyAssumption, EndsInv
  <2> QED BY <1>1, <1>2, <2>1, <2>2, <2>3, <2>4, <2>5, OneCounted, OtherConnections
          DEF ProxyTypes, EndsInv
<1>7. ASSUME NEW found \in SUBSET N!Addresses, N!CannotReach(c, found) PROVE ProxyInv'
  <2>1. PICK result \in N!Results : N!Count(c, result)
    BY <1>7 DEF N!CannotReach, N!Results
  <2>2. /\ upstream[c] = "connecting" /\ upstream' = [upstream EXCEPT ![c] = "gone"] /\ N!Reply(c)
        /\ UNCHANGED <<server, target, reached, ended, owed>>
    BY <1>7 DEF N!CannotReach
  <2> QED BY <1>1, <1>2, <2>1, <2>2, OneCounted, OtherConnections DEF N!Reply, ProxyTypes, EndsInv
<1> QED BY <1>4, <1>5, <1>6, <1>7

\* A tunnel's bytes and ends.
LEMMA ProxyPiped ==
  ASSUME ProxyInv, NEW c \in Conns,
         \/ N!UpstreamSends(c) \/ N!ClientReads(c) \/ N!LastRead(c) \/ N!Fails(c)
         \/ \E which \in {"client", "upstream"} : N!Ends(c, which)
  PROVE  ProxyInv'
<1>1. ProxyTypes /\ EndsInv(c)
  BY DEF ProxyInv
<1>2. N!Total(c) \in Nat /\ answers[c] \in Nat /\ owed[c] \in Nat
  BY <1>1 DEF ProxyTypes, Counted, N!Total, N!Results
<1>3. ASSUME UNCHANGED counts PROVE \A d \in Conns : N!Total(d)' = N!Total(d)
  BY <1>3 DEF N!Total
<1>4. CASE N!UpstreamSends(c)
  BY <1>1, <1>2, <1>3, <1>4, OtherConnections DEF N!UpstreamSends, N!Tunnel, ProxyTypes, EndsInv
<1>5. CASE N!ClientReads(c)
  BY <1>1, <1>2, <1>3, <1>5, OtherConnections DEF N!ClientReads, N!Tunnel, ProxyTypes, EndsInv
<1>6. CASE N!LastRead(c)
  BY <1>1, <1>2, <1>3, <1>6, OtherConnections DEF N!LastRead, N!Tunnel, ProxyTypes, EndsInv
<1>7. CASE N!Fails(c)
  BY <1>1, <1>2, <1>3, <1>7, OtherConnections DEF N!Fails, ProxyTypes, EndsInv
<1>8. ASSUME NEW which \in {"client", "upstream"}, N!Ends(c, which) PROVE ProxyInv'
  <2>1. /\ N!Tunnel(c) /\ ended' = [ended EXCEPT ![c] = ended[c] \cup {which}]
        /\ UNCHANGED <<server, target, reached, owed, counts, answers>>
    BY <1>8 DEF N!Ends
  <2>2. \/ /\ owed[c] = 0
           /\ client' = [client EXCEPT ![c] = "gone"] /\ upstream' = [upstream EXCEPT ![c] = "gone"]
        \/ UNCHANGED <<client, upstream>>
    BY <1>8 DEF N!Ends, N!Done
  <2> QED BY <1>1, <1>2, <1>3, <2>1, <2>2, OtherConnections DEF N!Tunnel, ProxyTypes, EndsInv
<1> QED BY <1>4, <1>5, <1>6, <1>7, <1>8

LEMMA ProxyCloses ==
  ASSUME ProxyInv, N!Close \/ N!Closed
  PROVE  ProxyInv'
<1>1. CASE N!Close
  <2>1. UNCHANGED counts => \A c \in Conns : N!Total(c)' = N!Total(c)
    BY DEF N!Total
  <2>2. \A c \in Conns : N!Total(c) \in Nat
    BY DEF ProxyInv, ProxyTypes, Counted, N!Total, N!Results
  <2>3. ProxyTypes'
    BY <1>1 DEF N!Close, N!DropAll, ProxyInv, ProxyTypes
  <2>4. ASSUME NEW c \in Conns PROVE EndsInv(c)'
    <3>1. EndsInv(c) /\ ProxyTypes
      BY DEF ProxyInv
    <3> QED BY <1>1, <2>1, <2>2, <3>1 DEF N!Close, N!DropAll, ProxyTypes, EndsInv
  <2> QED BY <2>3, <2>4 DEF ProxyInv
<1>2. CASE N!Closed
  BY <1>2 DEF N!Closed, ProxyInv, ProxyTypes, EndsInv, N!Total
<1> QED BY <1>1, <1>2

LEMMA ProxyInvHolds == ASSUME N!NetProxyAssumption PROVE N!Spec => []ProxyInv
<1>1. N!Init => ProxyInv
  BY ProxyStarts
<1>2. ProxyInv /\ [N!Next]_(N!vars) => ProxyInv'
  <2>1. ASSUME ProxyInv, N!Next PROVE ProxyInv'
    <3>1. ASSUME NEW c \in Conns,
                 \/ N!Connects(c) \/ N!UpstreamSends(c) \/ N!ClientReads(c) \/ N!LastRead(c)
                 \/ N!Fails(c)
                 \/ \E n \in Names \cup {"bad"} : N!Asks(c, n)
                 \/ \E found \in SUBSET N!Addresses :
                      N!Connected(c, found) \/ N!CannotReach(c, found)
                 \/ \E which \in {"client", "upstream"} : N!Ends(c, which)
          PROVE  ProxyInv'
      BY <2>1, <3>1, ProxyAsked, ProxyPiped
    <3> QED BY <2>1, <3>1, ProxyCloses DEF N!Next
  <2>2. ASSUME ProxyInv, UNCHANGED N!vars PROVE ProxyInv'
    BY <2>2 DEF ProxyInv, ProxyTypes, EndsInv, N!Total, N!vars
  <2> QED BY <2>1, <2>2
<1> QED BY <1>1, <1>2, PTL DEF N!Spec

\* A request is counted and answered at most once, and an upstream end never outlives its
\* client's, through failures of either side and the close of the proxy (net-proxy.ts, 384).
THEOREM ProxyNothingHalfOpen ==
  ASSUME N!NetProxyAssumption PROVE N!Spec => []N!NothingHalfOpenForGood
<1>1. ProxyInv => N!NothingHalfOpenForGood
  BY DEF ProxyInv, EndsInv, N!NothingHalfOpenForGood
<1> QED BY <1>1, ProxyInvHolds, PTL

\* A tunnel both of whose sides ended cleanly delivered all that upstream sent.
THEOREM ProxyNothingCutShort == ASSUME N!NetProxyAssumption PROVE N!Spec => []N!NothingCutShort
<1>1. ProxyInv => N!NothingCutShort
  BY DEF ProxyInv, EndsInv, N!NothingCutShort
<1> QED BY <1>1, ProxyInvHolds, PTL

\* An address that is not public is only reached for a name that an entry of the allowlist
\* names, never through a wildcard, whatever a name resolves to (sandbox-net.ts, 12-16).
THEOREM ProxyWildcardStaysPublic ==
  ASSUME N!NetProxyAssumption PROVE N!Spec => []N!WildcardStaysPublic
<1>1. ProxyInv => N!WildcardStaysPublic
  BY DEF ProxyInv, EndsInv, N!WildcardStaysPublic
<1> QED BY <1>1, ProxyInvHolds, PTL

-----------------------------------------------------------------------------
(***************************************************************************)
(* Retention: what a pass may delete                                       *)
(***************************************************************************)
StoredRuns == [status : {"none", "active", "ended"}, ended : Nat, batch : BOOLEAN]
StoredEvents == [state : {"none", "new", "dispatched", "purged"}, ts : Nat]
LedgerRows == [run : Runs, ts : Nat, late : BOOLEAN]
Passes == [step : {"idle", "runs", "ledger", "events", "spaces"}, at : Nat,
           dirs : SUBSET Runs, checks : SUBSET Runs]

RetentionTypes ==
  /\ now \in Nat /\ pass \in Passes /\ pass.at <= now
  /\ run \in [Runs -> StoredRuns] /\ event \in [Runs -> StoredEvents]
  /\ ledger \subseteq LedgerRows

\* A row written while its run was active is no younger than the end of the run.
RowsInv ==
  /\ \A r \in Runs : run[r].ended <= now
  /\ \A x \in ledger :
       /\ x.ts <= now
       /\ run[x.run].status = "ended" /\ ~x.late => x.ts <= run[x.run].ended

RetentionInv == RetentionTypes /\ RowsInv /\ R!NeededStays

LEMMA RetentionStarts == ASSUME R!Init PROVE RetentionInv
<1>1. run \in [Runs -> StoredRuns] /\ event \in [Runs -> StoredEvents]
  BY DEF R!Init, StoredRuns, StoredEvents
<1>2. pass \in Passes /\ pass.at = 0
  BY DEF R!Init, R!NoPass, Passes
<1> QED BY <1>1, <1>2 DEF R!Init, RetentionInv, RetentionTypes, RowsInv, R!NeededStays, R!HasRow

\* A time that is a day or more behind is on an earlier day.
LEMMA DayIsOver ==
  ASSUME NEW d \in Nat \ {0}, NEW t \in Nat, NEW n \in Nat, t + d < n
  PROVE  t \div d < n \div d
<1>1. (t + d) \div d <= n \div d
  OBVIOUS
<1>2. (t + d) \div d = (t \div d) + 1
  OBVIOUS
<1> QED BY <1>1, <1>2

\* A row written now for a run that has one.
LEMMA RowWritten ==
  ASSUME RetentionInv, NEW r \in Runs, NEW late \in BOOLEAN, run[r].status = "ended" => late,
         ledger' \in {ledger, ledger \cup {R!Row(r, late)}},
         run' \in [Runs -> StoredRuns], \A q \in Runs : run'[q].ended = run[q].ended,
         \A q \in Runs : run'[q].status = run[q].status,
         UNCHANGED <<now, event, pass>>, R!NeededStays'
  PROVE  RetentionInv' /\ ledger \subseteq ledger'
<1>1. R!Row(r, late) \in LedgerRows
  BY DEF RetentionInv, RetentionTypes, LedgerRows, R!Row
<1>2. R!Row(r, late).run = r /\ R!Row(r, late).ts = now /\ R!Row(r, late).late = late
  BY DEF R!Row
<1>3. ledger' \subseteq LedgerRows /\ ledger \subseteq ledger'
  BY <1>1 DEF RetentionInv, RetentionTypes
<1>4. \A x \in ledger' : x \in ledger \/ x = R!Row(r, late)
  OBVIOUS
<1>5. RowsInv'
  <2>1. \A q \in Runs : run'[q].ended <= now'
    BY DEF RetentionInv, RowsInv
  <2>2. ASSUME NEW x \in ledger'
        PROVE  x.ts <= now /\ (run'[x.run].status = "ended" /\ ~x.late => x.ts <= run'[x.run].ended)
    <3>1. CASE x \in ledger
      <4>1. x.run \in Runs
        BY <3>1 DEF RetentionInv, RetentionTypes, LedgerRows
      <4> QED BY <3>1, <4>1 DEF RetentionInv, RowsInv
    <3>2. CASE x = R!Row(r, late)
      <4>1. now <= now
        BY DEF RetentionInv, RetentionTypes
      <4>2. x.run = r /\ x.ts = now /\ x.late = late
        BY <1>2, <3>2
      <4>3. x.late \/ run'[x.run].status # "ended"
        BY <4>2
      <4> QED BY <4>1, <4>2, <4>3
    <3> QED BY <1>4, <3>1, <3>2
  <2> QED BY <2>1, <2>2 DEF RowsInv
<1> QED BY <1>3, <1>5 DEF RetentionInv, RetentionTypes

\* The row of one run changes, and perhaps its event.
LEMMA RunChanges ==
  ASSUME RetentionInv, NEW r \in Runs, NEW k \in StoredRuns, run' = [run EXCEPT ![r] = k],
         k.ended <= now,
         k.status = "ended" => k.ended = now \/ (run[r].status = "ended" /\ k.ended = run[r].ended),
         UNCHANGED <<now, pass, ledger>>, event' \in [Runs -> StoredEvents], R!NeededStays'
  PROVE  RetentionInv'
<1>1. run' \in [Runs -> StoredRuns]
  BY DEF RetentionInv, RetentionTypes
<1>2. \A q \in Runs : run'[q] = IF q = r THEN k ELSE run[q]
  BY DEF RetentionInv, RetentionTypes
<1>3. ASSUME NEW x \in ledger, run'[x.run].status = "ended" /\ ~x.late
      PROVE  x.ts <= run'[x.run].ended
  <2>1. x.run \in Runs
    BY DEF RetentionInv, RetentionTypes, LedgerRows
  <2> QED BY <1>2, <1>3, <2>1 DEF RetentionInv, RowsInv
<1> QED BY <1>1, <1>2, <1>3 DEF RetentionInv, RetentionTypes, RowsInv

\* Runs are triggered, work, end and have their batches settled.
LEMMA RetentionWorks ==
  ASSUME RetentionInv, NEW r \in Runs,
         \/ R!Publish(r) \/ R!Work(r) \/ R!End(r) \/ R!SettleBatch(r) \/ R!Push(r)
         \/ \E starts \in BOOLEAN : R!Dispatch(r, starts)
  PROVE  RetentionInv' /\ ledger \subseteq ledger'
<1>1. /\ run[r] \in StoredRuns /\ event[r] \in StoredEvents /\ now \in Nat
      /\ run \in [Runs -> StoredRuns] /\ event \in [Runs -> StoredEvents]
      /\ run[r].status \in {"none", "active", "ended"} /\ run[r].ended \in Nat
      /\ run[r].ended <= now
  BY DEF RetentionInv, RetentionTypes, RowsInv, StoredRuns
<1>n. \A q \in Runs : /\ run[q].status # "none" => event[q].state = "dispatched"
                      /\ run[q].batch => run[q].status # "none"
  BY DEF RetentionInv, R!NeededStays, R!HasRow
<1>2. CASE R!Publish(r)
  <2>1. event' = [event EXCEPT ![r] = [state |-> "new", ts |-> now]] /\ event[r].state = "none"
        /\ UNCHANGED <<now, run, ledger, space, pass>>
    BY <1>2 DEF R!Publish
  <2>2. event' \in [Runs -> StoredEvents]
    BY <1>1, <2>1 DEF StoredEvents
  <2>3. R!NeededStays'
    BY <1>1, <1>n, <2>1 DEF R!NeededStays, R!HasRow
  <2> QED BY <2>1, <2>2, <2>3 DEF RetentionInv, RetentionTypes, RowsInv
<1>3. ASSUME NEW starts \in BOOLEAN, R!Dispatch(r, starts)
      PROVE  RetentionInv' /\ ledger \subseteq ledger'
  <2>1. event[r].state = "new"
        /\ event' = [event EXCEPT ![r] = [event[r] EXCEPT !.state = "dispatched"]]
        /\ UNCHANGED <<now, ledger, space, pass>>
    BY <1>3 DEF R!Dispatch
  <2>2. [event[r] EXCEPT !.state = "dispatched"] \in StoredEvents
    BY <1>1 DEF StoredEvents
  <2>3. event' \in [Runs -> StoredEvents] /\ event'[r].state = "dispatched"
        /\ \A q \in Runs \ {r} : event'[q] = event[q]
    BY <1>1, <2>1, <2>2 DEF StoredEvents
  <2>4. CASE run' = run
    BY <1>1, <1>n, <2>1, <2>3, <2>4
      DEF RetentionInv, RetentionTypes, RowsInv, R!NeededStays, R!HasRow
  <2>5. CASE run' = [run EXCEPT ![r].status = "active"]
    <3> DEFINE k == [run[r] EXCEPT !.status = "active"]
    <3>1. k \in StoredRuns /\ k.status = "active"
          /\ k.ended = run[r].ended /\ k.batch = run[r].batch
      BY <1>1 DEF StoredRuns
    <3>2. run' = [run EXCEPT ![r] = k]
      BY <2>5
    <3> HIDE DEF k
    <3>3. \A q \in Runs : run'[q] = IF q = r THEN k ELSE run[q]
      BY <1>1, <3>2
    <3>4. R!NeededStays'
      BY <1>n, <2>3, <3>1, <3>3 DEF R!NeededStays, R!HasRow
    <3> QED BY <1>1, <2>1, <2>3, <3>1, <3>2, <3>4, RunChanges
  <2> QED BY <1>3, <2>4, <2>5 DEF R!Dispatch
<1>4. CASE R!Work(r)
  <2>1. run[r].status = "active" /\ UNCHANGED <<now, event, pass>>
    BY <1>4 DEF R!Work, R!Active
  <2>2. CASE ledger' = ledger \cup {R!Row(r, FALSE)} /\ UNCHANGED <<run, space>>
    <3>1. PICK late \in BOOLEAN : late = FALSE
      OBVIOUS
    <3>2. R!NeededStays'
      BY <1>n, <2>1, <2>2 DEF R!NeededStays, R!HasRow
    <3> QED BY <1>1, <2>1, <2>2, <3>1, <3>2, RowWritten
  <2>3. CASE run' = [run EXCEPT ![r].batch = TRUE] /\ UNCHANGED <<ledger, space>>
    <3>1. PICK b \in BOOLEAN : b = TRUE
      OBVIOUS
    <3> DEFINE k == [run[r] EXCEPT !.batch = b]
    <3>2. k \in StoredRuns /\ k.status = "active" /\ k.ended = run[r].ended
      BY <1>1, <2>1 DEF StoredRuns
    <3>3. run' = [run EXCEPT ![r] = k]
      BY <2>3, <3>1
    <3> HIDE DEF k
    <3>4. \A q \in Runs : run'[q] = IF q = r THEN k ELSE run[q]
      BY <1>1, <3>3
    <3>5. R!NeededStays'
      BY <1>n, <2>1, <3>2, <3>4 DEF R!NeededStays, R!HasRow
    <3> QED BY <1>1, <2>1, <2>3, <3>2, <3>3, <3>5, RunChanges
  <2>4. CASE UNCHANGED <<ledger, run>>
    BY <1>n, <2>1, <2>4 DEF RetentionInv, RetentionTypes, RowsInv, R!NeededStays, R!HasRow
  <2> QED BY <1>4, <2>2, <2>3, <2>4 DEF R!Work
<1>5. CASE R!End(r)
  <2> DEFINE k == [run[r] EXCEPT !.status = "ended", !.ended = now]
  <2>1. run[r].status = "active" /\ run' = [run EXCEPT ![r] = k]
        /\ UNCHANGED <<now, event, ledger, pass>>
    BY <1>5 DEF R!End, R!Active
  <2>2. k \in StoredRuns /\ k.status = "ended" /\ k.ended = now
    BY <1>1 DEF StoredRuns
  <2> HIDE DEF k
  <2>3. \A q \in Runs : run'[q] = IF q = r THEN k ELSE run[q]
    BY <1>1, <2>1
  <2>4. R!NeededStays'
    BY <1>n, <2>1, <2>2, <2>3 DEF R!NeededStays, R!HasRow
  <2>5. k.ended <= now
    BY <1>1, <2>2
  <2>6. event' \in [Runs -> StoredEvents] /\ ledger' = ledger
    BY <1>1, <2>1
  <2> QED BY <2>1, <2>2, <2>4, <2>5, <2>6, RunChanges
<1>6. CASE R!SettleBatch(r)
  <2>1. PICK late \in BOOLEAN : late = (run[r].status # "active")
    OBVIOUS
  <2>2. PICK b \in BOOLEAN : b = FALSE
    OBVIOUS
  <2> DEFINE k == [run[r] EXCEPT !.batch = b]
  <2>3. run[r].batch /\ run' = [run EXCEPT ![r] = k] /\ UNCHANGED <<now, event, pass>>
    BY <1>6, <2>2 DEF R!SettleBatch
  <2>4. ledger' \in {ledger, ledger \cup {R!Row(r, late)}}
    BY <1>6, <2>1 DEF R!SettleBatch, R!Active
  <2>5. k \in StoredRuns /\ k.status = run[r].status /\ k.ended = run[r].ended
    BY <1>1 DEF StoredRuns
  <2>6. k.batch = b
    BY <1>1 DEF StoredRuns
  <2> HIDE DEF k
  <2>7. run' \in [Runs -> StoredRuns] /\ \A q \in Runs : run'[q] = IF q = r THEN k ELSE run[q]
    BY <1>1, <2>3, <2>5
  <2>8. R!NeededStays'
    BY <1>n, <2>2, <2>3, <2>5, <2>6, <2>7 DEF R!NeededStays, R!HasRow
  <2> QED BY <2>1, <2>3, <2>4, <2>5, <2>7, <2>8, RowWritten
<1>7. CASE R!Push(r)
  BY <1>7 DEF R!Push, RetentionInv, RetentionTypes, RowsInv, R!NeededStays, R!HasRow
<1> QED BY <1>2, <1>3, <1>4, <1>5, <1>6, <1>7

\* A pass begins, looks at directories, sweeps one and ends; pushes and time go on.
LEMMA RetentionPasses ==
  ASSUME RetentionInv,
         \/ R!Tick \/ R!StartPass \/ R!EndPass \/ R!PassFails
         \/ \E r \in Runs : R!LookAt(r) \/ \E git : R!Swept(r, git)
  PROVE  RetentionInv' /\ ledger' = ledger
<1>1. UNCHANGED <<event, run, ledger>>
  <2>1. \A r \in Runs : R!LookAt(r) => UNCHANGED <<event, run, ledger>>
    BY DEF R!LookAt
  <2>2. \A r \in Runs : \A git : R!Swept(r, git) => UNCHANGED <<event, run, ledger>>
    BY DEF R!Swept
  <2> QED BY <2>1, <2>2 DEF R!Tick, R!StartPass, R!EndPass, R!PassFails
<1>t. now \in Nat /\ pass \in Passes /\ pass.at \in Nat /\ pass.at <= now
  BY DEF RetentionInv, RetentionTypes, Passes
<1>2. now' \in Nat /\ now <= now' /\ pass' \in Passes /\ pass'.at <= now'
  <2>1. CASE R!Tick
    BY <1>t, <2>1 DEF R!Tick
  <2>2. CASE R!EndPass \/ R!PassFails
    <3>1. pass' \in Passes /\ pass'.at = 0 /\ now' = now
      BY <2>2 DEF R!EndPass, R!PassFails, R!NoPass, Passes
    <3> QED BY <1>t, <3>1
  <2>3. CASE R!StartPass
    <3>1. pass' \in Passes /\ pass'.at = now /\ now' = now
      BY <1>t, <2>3 DEF R!StartPass, Passes
    <3> QED BY <1>t, <3>1
  <2>4. ASSUME NEW r \in Runs, R!LookAt(r)
        PROVE  pass' \in Passes /\ pass'.at = pass.at /\ now' = now
    <3>1. PICK checks \in SUBSET {r} :
            pass' = [pass EXCEPT !.dirs = pass.dirs \ {r}, !.checks = checks]
      BY <2>4, Zenon DEF R!LookAt
    <3> QED BY <1>t, <2>4, <3>1 DEF R!LookAt, Passes
  <2>5. ASSUME NEW r \in Runs, NEW git, R!Swept(r, git)
        PROVE  pass' \in Passes /\ pass'.at = pass.at /\ now' = now
    BY <1>t, <2>5 DEF R!Swept, Passes
  <2> QED BY <1>t, <2>1, <2>2, <2>3, <2>4, <2>5
<1>3. ASSUME NEW x \in ledger PROVE x.ts \in Nat /\ x.run \in Runs
  BY DEF RetentionInv, RetentionTypes, LedgerRows
<1>4. \A q \in Runs : run[q].ended \in Nat
  BY DEF RetentionInv, RetentionTypes, StoredRuns
<1>5. RowsInv'
  <2>1. \A q \in Runs : run[q].ended <= now'
    BY <1>t, <1>2, <1>4 DEF RetentionInv, RowsInv
  <2>2. \A x \in ledger : x.ts <= now'
    BY <1>t, <1>2, <1>3 DEF RetentionInv, RowsInv
  <2> QED BY <1>1, <2>1, <2>2 DEF RetentionInv, RowsInv
<1>6. R!NeededStays'
  BY <1>1 DEF RetentionInv, R!NeededStays, R!HasRow
<1> QED BY <1>1, <1>2, <1>5, <1>6 DEF RetentionInv, RetentionTypes

\* A pass deletes: what it takes of the ledger is of earlier days and of runs that ended.
LEMMA RetentionPurges ==
  ASSUME R!RetentionAssumption, RetentionInv, R!PurgeRuns \/ R!PurgeLedger \/ R!PurgeEvents
  PROVE  RetentionInv' /\ R!CapStaysCounted
<1>1. /\ now \in Nat /\ pass \in Passes /\ pass.at \in Nat /\ pass.at <= now
      /\ run \in [Runs -> StoredRuns] /\ event \in [Runs -> StoredEvents]
      /\ DayLength \in Nat \ {0} /\ KeepRuns \in Nat /\ KeepLedger \in Nat
      /\ KeepLedger >= DayLength /\ KeepRuns >= KeepLedger
  BY DEF RetentionInv, RetentionTypes, R!RetentionAssumption, Passes
<1>2. ASSUME NEW x \in ledger
      PROVE  x.ts \in Nat /\ x.run \in Runs /\ run[x.run].ended \in Nat /\ x.ts <= now
  BY <1>1 DEF RetentionInv, RetentionTypes, RowsInv, LedgerRows, StoredRuns
<1>n. \A q \in Runs : /\ run[q].status # "none" => event[q].state = "dispatched"
                      /\ run[q].batch => run[q].status # "none"
  BY DEF RetentionInv, R!NeededStays, R!HasRow
<1>3. CASE R!PurgeRuns
  <2>1. PICK S \in SUBSET R!Oldest :
          /\ ledger' = {x \in ledger : x.run \notin S}
          /\ run' = [r \in Runs |-> IF r \in S THEN [run[r] EXCEPT !.status = "none"] ELSE run[r]]
          /\ pass' = pass \/ pass' = [pass EXCEPT !.step = "ledger"]
    BY <1>3 DEF R!PurgeRuns, R!Goes
  <2>2. UNCHANGED <<now, event, space>>
    BY <1>3 DEF R!PurgeRuns
  <2>p. pass' \in Passes /\ pass'.at = pass.at
    BY <1>1, <2>1 DEF Passes
  <2>3. \A r \in S : /\ r \in Runs /\ run[r].status = "ended" /\ run[r].ended + KeepRuns < pass.at
                     /\ ~run[r].batch
    BY <2>1 DEF R!Oldest, R!Finished, R!Older
  <2>4. \A r \in Runs : [run[r] EXCEPT !.status = "none"] \in StoredRuns
    BY <1>1 DEF StoredRuns
  <2>5. run' \in [Runs -> StoredRuns]
    BY <1>1, <2>1, <2>4
  <2>6. \A r \in Runs :
          /\ run'[r].ended = run[r].ended /\ run'[r].batch = run[r].batch
          /\ run'[r].status = IF r \in S THEN "none" ELSE run[r].status
    BY <1>1, <2>1 DEF StoredRuns
  <2>7. R!NeededStays'
    BY <1>n, <2>2, <2>3, <2>6 DEF R!NeededStays, R!HasRow
  <2>8. RowsInv'
    BY <1>2, <2>1, <2>2, <2>6 DEF RetentionInv, RowsInv
  <2>9. RetentionInv'
    BY <1>1, <2>1, <2>2, <2>p, <2>5, <2>7, <2>8 DEF RetentionInv, RetentionTypes
  <2>10. ASSUME NEW x \in ledger \ ledger', ~x.late
         PROVE  R!Day(x.ts) < R!Day(now) /\ ~R!Active(x.run)
    <3>1. x.run \in S /\ run[x.run].status = "ended"
      BY <2>1, <2>3, <2>10
    <3>2. x.ts <= run[x.run].ended
      BY <2>10, <3>1 DEF RetentionInv, RowsInv
    <3>3. x.ts + DayLength < now
      BY <1>1, <1>2, <2>3, <2>10, <3>1, <3>2
    <3>4. R!Day(x.ts) < R!Day(now)
      BY <1>1, <1>2, <2>10, <3>3, DayIsOver DEF R!Day
    <3> QED BY <3>1, <3>4 DEF R!Active
  <2> QED BY <2>9, <2>10 DEF R!CapStaysCounted
<1>4. CASE R!PurgeLedger
  <2>1. PICK S \in SUBSET R!Expendable :
          /\ ledger' = ledger \ S /\ UNCHANGED <<now, event, run, space>>
          /\ pass' = pass \/ pass' = [pass EXCEPT !.step = "events"]
    BY <1>4 DEF R!PurgeLedger, R!Goes
  <2>2. pass' \in Passes /\ pass'.at = pass.at
    BY <1>1, <2>1 DEF Passes
  <2>3. RetentionInv'
    BY <2>1, <2>2 DEF RetentionInv, RetentionTypes, RowsInv, R!NeededStays, R!HasRow
  <2>4. ASSUME NEW x \in ledger \ ledger' PROVE R!Day(x.ts) < R!Day(now) /\ ~R!Active(x.run)
    <3>1. x.ts + KeepLedger < pass.at /\ ~R!Active(x.run)
      BY <2>1, <2>4 DEF R!Expendable, R!Older
    <3>2. x.ts + DayLength < now
      BY <1>1, <1>2, <2>4, <3>1
    <3>3. R!Day(x.ts) < R!Day(now)
      BY <1>1, <1>2, <2>4, <3>2, DayIsOver DEF R!Day
    <3> QED BY <3>1, <3>3
  <2> QED BY <2>3, <2>4 DEF R!CapStaysCounted
<1>5. CASE R!PurgeEvents
  <2>1. PICK S \in SUBSET R!Unneeded :
          /\ event' = [r \in Runs |-> IF r \in S THEN [event[r] EXCEPT !.state = "purged"]
                                      ELSE event[r]]
          /\ UNCHANGED <<now, run, ledger, space>>
          /\ pass' = pass \/ pass' = [pass EXCEPT !.step = "spaces", !.dirs = R!Workspaces]
    BY <1>5 DEF R!PurgeEvents
  <2>p. pass' \in Passes /\ pass'.at = pass.at
    <3>1. R!Workspaces \in SUBSET Runs
      BY DEF R!Workspaces
    <3> QED BY <1>1, <2>1, <3>1 DEF Passes
  <2>2. \A r \in Runs : [event[r] EXCEPT !.state = "purged"] \in StoredEvents
    BY <1>1 DEF StoredEvents
  <2>3. event' \in [Runs -> StoredEvents]
    BY <1>1, <2>1, <2>2
  <2>4. \A r \in Runs : run[r].status # "none" => event'[r] = event[r]
    BY <2>1 DEF R!Unneeded, R!HasRow
  <2>5. R!NeededStays'
    BY <1>n, <2>1, <2>4 DEF R!NeededStays, R!HasRow
  <2>6. RetentionInv'
    BY <2>1, <2>p, <2>3, <2>5 DEF RetentionInv, RetentionTypes, RowsInv
  <2> QED BY <2>1, <2>6 DEF R!CapStaysCounted
<1> QED BY <1>3, <1>4, <1>5

LEMMA RetentionStep ==
  ASSUME R!RetentionAssumption, RetentionInv, [R!Next]_(R!vars)
  PROVE  RetentionInv' /\ R!CapStaysCounted
<1>1. CASE R!Next
  <2>1. CASE \E r \in Runs : \/ R!Publish(r) \/ R!Work(r) \/ R!End(r) \/ R!SettleBatch(r)
                             \/ R!Push(r) \/ \E starts \in BOOLEAN : R!Dispatch(r, starts)
    BY <2>1, RetentionWorks DEF R!CapStaysCounted
  <2>2. CASE \/ R!Tick \/ R!StartPass \/ R!EndPass \/ R!PassFails
             \/ \E r \in Runs : R!LookAt(r) \/ \E git : R!Swept(r, git)
    BY <2>2, RetentionPasses DEF R!CapStaysCounted
  <2>3. CASE R!PurgeRuns \/ R!PurgeLedger \/ R!PurgeEvents
    BY <2>3, RetentionPurges
  <2> QED BY <1>1, <2>1, <2>2, <2>3 DEF R!Next
<1>2. CASE UNCHANGED R!vars
  BY <1>2
    DEF RetentionInv, RetentionTypes, RowsInv, R!NeededStays, R!HasRow, R!vars, R!CapStaysCounted
<1> QED BY <1>1, <1>2

LEMMA RetentionInvHolds == ASSUME R!RetentionAssumption PROVE R!Spec => []RetentionInv
<1>1. R!Init => RetentionInv
  BY RetentionStarts
<1>2. RetentionInv /\ [R!Next]_(R!vars) => RetentionInv'
  BY RetentionStep
<1> QED BY <1>1, <1>2, PTL DEF R!Spec

\* Nothing still needed is deleted, whatever an earlier step of the pass decided: a run's event
\* stays while the run has a row, and the row while its batch is in flight.
THEOREM RetentionNeededStays == ASSUME R!RetentionAssumption PROVE R!Spec => []R!NeededStays
<1>1. RetentionInv => R!NeededStays
  BY DEF RetentionInv
<1> QED BY <1>1, RetentionInvHolds, PTL

\* Deleting never lifts a cap, for every policy the schema admits: a ledger row goes once its day
\* is over and its run has ended, but for the bill of a batch that outlived its run.
THEOREM RetentionCapsKept == ASSUME R!RetentionAssumption PROVE R!Spec => R!CapsKeptByRetention
<1>1. RetentionInv /\ [R!Next]_(R!vars) => [R!CapStaysCounted]_(R!vars)
  BY RetentionStep
<1> QED BY <1>1, RetentionInvHolds, PTL DEF R!Spec, R!CapsKeptByRetention

-----------------------------------------------------------------------------
(***************************************************************************)
(* Sequence: where an attempt goes on                                      *)
(***************************************************************************)
Saved == [step : Nat, steps : Seq(Nat)]
Waits == [step : Nat, steps : Seq(Nat), data : Nat, by : Int,
          outcome : {"none", "pending", "matched", "errored", "timeout"}]
\* Each result is of its step, or null.
Own(s) == \A j \in 1 .. Len(s) : s[j] \in {0, j}

SequenceTypes ==
  /\ Len(StepKinds) \in Nat /\ lost \in Nat /\ at \in Nat /\ attempt \in Int
  /\ results \in Seq(Nat) /\ progress \in Saved /\ wait \in Waits
  /\ effects \in [Q!Steps -> Nat]
  /\ Own(results) /\ Own(progress.steps) /\ Own(wait.steps)
  /\ progress.step = Len(progress.steps) /\ wait.step = Len(wait.steps)

\* The runner is at the step after the saved progress; a wait that is not behind the
\* progress is for that step, and comes back to it until its batch is submitted anew.
PlaceInv ==
  /\ progress.step <= Len(StepKinds)
  /\ at # 0 => at = progress.step + 1 /\ Len(results) = progress.step /\ status = "running"
  /\ wait.outcome # "none" =>
       /\ wait.step <= progress.step /\ wait.step + 1 \in Q!Steps
       /\ StepKinds[wait.step + 1] # "op" /\ wait.data \in {0, wait.step + 1}
  /\ wait.outcome = "pending" => status = "waiting"
  /\ resume => /\ at # 0 /\ ~did /\ wait.outcome \in Q!Outcomes /\ wait.step = progress.step
  /\ at # 0 /\ ~resume /\ ~did /\ wait.outcome # "none" => wait.step < progress.step
  /\ did => at \in Q!Steps

\* Where an effect that stands is accounted for: it is saved, about to be saved, of a run that
\* failed, or what the wait is about.
Stands(j) ==
  \/ j <= progress.step \/ (did /\ at = j) \/ status = "failed"
  \/ wait.outcome \in {"pending", "matched", "timeout"} /\ j = wait.step + 1

\* No step has more than one effect that stands, and none that is not accounted for.
EffectsInv ==
  /\ \A j \in Q!Steps : effects[j] = 0 \/ (effects[j] = 1 /\ Stands(j))
  /\ did => effects[at] = 1
  /\ wait.outcome = "pending" => effects[wait.step + 1] = 1

SequenceInv == SequenceTypes /\ PlaceInv /\ EffectsInv

LEMMA SequenceStarts == ASSUME Q!SequenceAssumption, Q!Init PROVE SequenceInv
<1>1. Len(StepKinds) \in Nat
  BY DEF Q!SequenceAssumption
<1>2. progress = [step |-> 0, steps |-> <<>>]
  BY DEF Q!Init, Q!Checkpoint
<1>3. wait = [step |-> 0, steps |-> <<>>, data |-> 0, by |-> 0, outcome |-> "none"]
  BY DEF Q!Init, Q!NoWait
<1>4. Own(<<>>) /\ <<>> \in Seq(Nat) /\ Len(<<>>) = 0
  BY DEF Own
<1>5. SequenceTypes
  <2>1. progress \in Saved /\ progress.steps = <<>> /\ progress.step = 0
    BY <1>2, <1>4 DEF Saved
  <2>2. wait \in Waits /\ wait.steps = <<>> /\ wait.step = 0
    BY <1>3, <1>4 DEF Waits
  <2>3. results = <<>> /\ at = 0 /\ lost = 0 /\ attempt = 0 /\ effects \in [Q!Steps -> Nat]
    BY DEF Q!Init
  <2> QED BY <1>1, <1>4, <2>1, <2>2, <2>3 DEF SequenceTypes
<1>6. PlaceInv
  BY <1>1, <1>2, <1>3 DEF Q!Init, PlaceInv
<1>7. EffectsInv
  BY <1>3 DEF Q!Init, EffectsInv
<1> QED BY <1>5, <1>6, <1>7 DEF SequenceInv

\* A runner that is gone keeps the rows, and what it did and did not save came to an error, is
\* lost, or ends the run.
LEMMA RunnerGone ==
  ASSUME SequenceInv, Q!Gone, UNCHANGED <<progress, wait>>, lost' \in Nat, attempt' \in Int,
         at # 0, status' # "failed" => status' # "waiting",
         \/ ~did /\ UNCHANGED effects
         \/ status' = "failed" /\ UNCHANGED effects
         \/ did /\ effects' = [effects EXCEPT ![at] = @ - 1]
  PROVE  SequenceInv'
<1>1. at' = 0 /\ ~did' /\ results' = <<>> /\ ~resume'
  BY DEF Q!Gone
<1>2. Own(<<>>) /\ <<>> \in Seq(Nat)
  BY DEF Own
<1>3. /\ status = "running" /\ wait.outcome # "pending" /\ effects \in [Q!Steps -> Nat]
      /\ at \in Nat /\ (did => at \in Q!Steps /\ effects[at] = 1)
  BY DEF SequenceInv, SequenceTypes, PlaceInv, EffectsInv
<1>4. /\ effects' \in [Q!Steps -> Nat]
      /\ \A j \in Q!Steps : effects'[j] = effects[j] \/ effects'[j] = 0
      /\ did /\ status' # "failed" => effects'[at] = 0
  BY <1>3
<1>5. SequenceTypes'
  BY <1>1, <1>2, <1>4 DEF SequenceInv, SequenceTypes, Own
<1>6. PlaceInv'
  BY <1>1, <1>3 DEF SequenceInv, PlaceInv, Q!Outcomes
<1>7. ASSUME NEW j \in Q!Steps PROVE effects'[j] = 0 \/ (effects'[j] = 1 /\ Stands(j)')
  BY <1>1, <1>3, <1>4 DEF SequenceInv, EffectsInv, Stands
<1>8. EffectsInv'
  BY <1>1, <1>3, <1>7 DEF EffectsInv
<1> QED BY <1>5, <1>6, <1>8 DEF SequenceInv

\* Attempts begin, fail, park, are lost and end.
LEMMA SequenceBegins == ASSUME SequenceInv, Q!Begin PROVE SequenceInv'
<1>1. /\ results \in Seq(Nat) /\ progress \in Saved /\ wait \in Waits
      /\ progress.step \in Nat /\ wait.step \in Nat
      /\ progress.steps \in Seq(Nat) /\ wait.steps \in Seq(Nat)
      /\ progress.step = Len(progress.steps) /\ wait.step = Len(wait.steps)
      /\ Own(progress.steps) /\ Own(wait.steps)
      /\ wait.outcome \in {"none", "pending", "matched", "errored", "timeout"}
  BY DEF SequenceInv, SequenceTypes, Saved, Waits
<1>2. at = 0 /\ ~did /\ status' = "running" /\ status \in {"queued", "running"}
      /\ UNCHANGED <<did, progress, wait, effects, lost>>
  BY DEF Q!Begin, SequenceInv, PlaceInv, Q!Steps
<1>3. wait.outcome # "pending"
  BY <1>2 DEF SequenceInv, PlaceInv
<1>4. attempt' \in Int
  BY DEF Q!Begin, SequenceInv, SequenceTypes
<1>5. EffectsInv'
  BY <1>2, <1>3 DEF SequenceInv, EffectsInv, Stands, Q!Steps
<1>6. CASE Q!SavedIsAhead
  <2>1. at' = progress.step + 1 /\ results' = progress.steps /\ ~resume'
    BY <1>6 DEF Q!Begin
  <2>2. wait.outcome # "none" => wait.step < progress.step
    BY <1>1, <1>3, <1>6 DEF Q!SavedIsAhead, Q!WaitEnded, Q!Outcomes
  <2>3. SequenceTypes'
    BY <1>1, <1>2, <1>4, <2>1 DEF SequenceInv, SequenceTypes, Own
  <2>4. PlaceInv'
    BY <1>1, <1>2, <1>3, <2>1, <2>2 DEF SequenceInv, PlaceInv
  <2> QED BY <1>5, <2>3, <2>4 DEF SequenceInv
<1>7. CASE ~Q!SavedIsAhead
  <2>1. wait.outcome \in Q!Outcomes /\ progress.step <= wait.step
    BY <1>1, <1>7 DEF Q!SavedIsAhead, Q!WaitEnded
  <2>2. progress.step = wait.step
    BY <1>1, <2>1 DEF SequenceInv, PlaceInv, Q!Outcomes
  <2>3. at' = Q!Checkpoint(wait.step, wait.steps).step + 1
        /\ results' = Q!Checkpoint(wait.step, wait.steps).steps /\ resume'
    BY <1>7 DEF Q!Begin
  <2>4. at' = wait.step + 1 /\ results' = wait.steps /\ resume'
    BY <2>3 DEF Q!Checkpoint
  <2>5. SequenceTypes'
    BY <1>1, <1>2, <1>4, <2>4 DEF SequenceInv, SequenceTypes, Own
  <2>6. PlaceInv'
    BY <1>1, <1>2, <1>3, <2>1, <2>2, <2>4 DEF SequenceInv, PlaceInv, Q!Outcomes
  <2> QED BY <1>5, <2>5, <2>6 DEF SequenceInv
<1> QED BY <1>6, <1>7

LEMMA SequenceEnds ==
  ASSUME SequenceInv,
         \/ Q!Interrupted \/ Q!Succeed \/ Q!Lose
         \/ \E j \in Q!Steps : Q!Fail(j) \/ Q!FailAfter(j) \/ Q!FailForGood(j) \/ Q!OutcomeUnknown(j)
  PROVE  SequenceInv'
<1>1. /\ lost \in Nat /\ at \in Nat /\ Len(StepKinds) \in Nat /\ attempt \in Int
      /\ did => at \in 1 .. Len(StepKinds)
  BY DEF SequenceInv, SequenceTypes, PlaceInv, Q!Steps
<1>2. CASE Q!Interrupted
  <2>1. /\ at = 0 /\ status' = "failed" /\ status = "running"
        /\ UNCHANGED <<attempt, at, did, results, resume, progress, wait, effects, lost>>
    BY <1>2 DEF Q!Interrupted
  <2>2. SequenceTypes'
    BY <2>1 DEF SequenceInv, SequenceTypes, Own
  <2>3. PlaceInv'
    BY <2>1 DEF SequenceInv, PlaceInv
  <2>4. EffectsInv'
    BY <2>1 DEF SequenceInv, EffectsInv, Stands, Q!Steps
  <2> QED BY <2>2, <2>3, <2>4 DEF SequenceInv
<1>3. CASE Q!Succeed
  <2>1. /\ Q!Gone /\ UNCHANGED <<attempt, progress, wait, effects, lost>>
        /\ at = Len(StepKinds) + 1 /\ status' = "succeeded"
    BY <1>3 DEF Q!Succeed, Q!Ends
  <2>2. at # 0 /\ ~did
    BY <1>1, <2>1
  <2> QED BY <1>1, <2>1, <2>2, RunnerGone
<1>4. CASE Q!Lose
  <2>1. /\ Q!Gone /\ UNCHANGED <<progress, wait>> /\ at # 0 /\ lost' = lost + 1
        /\ status' = "running" /\ attempt' \in {attempt, attempt - 1}
        /\ effects' = IF did THEN [effects EXCEPT ![at] = @ - 1] ELSE effects
    BY <1>4 DEF Q!Lose
  <2> QED BY <1>1, <2>1, RunnerGone
<1>5. ASSUME NEW j \in Q!Steps, Q!Fail(j) \/ Q!FailForGood(j) \/ Q!OutcomeUnknown(j)
      PROVE  SequenceInv'
  <2>1. /\ Q!Gone /\ UNCHANGED <<attempt, progress, wait, effects, lost>> /\ at # 0
        /\ ~did \/ status' = "failed"
        /\ status' \in {"running", "failed"}
    BY <1>5 DEF Q!Fail, Q!FailForGood, Q!OutcomeUnknown, Q!AfterUnknown, Q!Running, Q!Ends, Q!Steps,
                Q!Retried
  <2> QED BY <1>1, <2>1, RunnerGone
<1>6. ASSUME NEW j \in Q!Steps, Q!FailAfter(j) PROVE SequenceInv'
  <2>1. /\ Q!Gone /\ UNCHANGED <<attempt, progress, wait, lost>> /\ at # 0 /\ did
        /\ effects' = [effects EXCEPT ![at] = @ - 1]
        /\ status' \in {"running", "failed"}
    BY <1>6 DEF Q!FailAfter, Q!Steps, Q!Retried
  <2> QED BY <1>1, <2>1, RunnerGone
<1> QED BY <1>2, <1>3, <1>4, <1>5, <1>6

\* A step is finished: its result is pushed and saved.
LEMMA StepFinished ==
  ASSUME SequenceInv, NEW j \in Q!Steps, at = j, NEW value \in {0, j}, Q!Finish(value),
         UNCHANGED <<status, attempt, wait, effects, lost>>
  PROVE  SequenceInv'
<1>1. /\ at \in Nat /\ j \in Nat /\ j <= Len(StepKinds) /\ Len(StepKinds) \in Nat /\ value \in Nat
      /\ results \in Seq(Nat) /\ Len(results) + 1 = j /\ progress.step + 1 = j
      /\ progress.step \in Nat /\ Own(results) /\ status = "running"
      /\ wait.step \in Nat
  BY DEF SequenceInv, SequenceTypes, PlaceInv, Q!Steps, Saved, Waits
<1>a. Append(results, value) \in Seq(Nat)
  BY <1>1
<1>2. PICK all \in Seq(Nat) : all = Append(results, value)
  BY <1>a
<1>3. Len(all) = j /\ Own(all)
  BY <1>1, <1>2 DEF Own
<1>4. results' = all /\ progress' = [step |-> j, steps |-> all] /\ at' = j + 1 /\ ~did' /\ ~resume'
  BY <1>2 DEF Q!Finish, Q!Checkpoint
<1>5. progress' \in Saved /\ progress'.step = j /\ progress'.steps = all
  BY <1>1, <1>4 DEF Saved
<1>6. SequenceTypes'
  BY <1>1, <1>3, <1>4, <1>5 DEF SequenceInv, SequenceTypes, Own
<1>7. PlaceInv'
  BY <1>1, <1>3, <1>4, <1>5 DEF SequenceInv, PlaceInv, Q!Steps
<1>8. \A k \in Q!Steps : k <= progress.step => k <= progress'.step
  BY <1>1, <1>5 DEF Q!Steps
<1>9. EffectsInv'
  BY <1>1, <1>4, <1>5, <1>8 DEF SequenceInv, EffectsInv, PlaceInv, Stands, Q!Steps
<1> QED BY <1>6, <1>7, <1>9 DEF SequenceInv

\* Steps are skipped, take effect and are saved; a resumed one takes what it waited for.
LEMMA SequenceSteps ==
  ASSUME SequenceInv, NEW j \in Q!Steps, Q!Skip(j) \/ Q!Effect(j) \/ Q!Save(j) \/ Q!Resumed(j)
  PROVE  SequenceInv'
<1>1. CASE Q!Skip(j)
  <2>1. at = j /\ Q!Finish(0) /\ UNCHANGED <<status, attempt, wait, effects, lost>>
    BY <1>1 DEF Q!Skip, Q!Running
  <2>2. 0 \in {0, j}
    OBVIOUS
  <2> QED BY <2>1, <2>2, StepFinished
<1>2. CASE Q!Save(j)
  <2>1. at = j /\ Q!Finish(j) /\ UNCHANGED <<status, attempt, wait, effects, lost>>
    BY <1>2 DEF Q!Save
  <2>2. j \in {0, j}
    OBVIOUS
  <2> QED BY <2>1, <2>2, StepFinished
<1>3. CASE Q!Resumed(j)
  <2>1. /\ at = j /\ resume /\ (Q!Finish(j) \/ Q!Finish(wait.data))
        /\ UNCHANGED <<status, attempt, wait, effects, lost>>
    BY <1>3 DEF Q!Resumed, Q!Running
  <2>2. at # 0
    BY <2>1 DEF Q!Steps
  <2>3. wait.data \in {0, j}
    BY <2>1, <2>2 DEF SequenceInv, PlaceInv, Q!Outcomes
  <2>4. PICK value \in {0, j} : Q!Finish(value)
    BY <2>1, <2>3
  <2> QED BY <2>1, <2>4, StepFinished
<1>4. CASE Q!Effect(j)
  <2>1. /\ at = j /\ ~did /\ did' /\ ~resume'
        /\ resume => wait.outcome = "errored"
        /\ effects' = [effects EXCEPT ![j] = @ + 1]
        /\ UNCHANGED <<status, attempt, at, results, progress, wait, lost>>
    BY <1>4 DEF Q!Effect, Q!Running, Q!SubmitsAnew
  <2>2. /\ j \in Nat /\ j # 0 /\ effects \in [Q!Steps -> Nat] /\ wait.step \in Nat
        /\ status = "running" /\ progress.step \in Nat /\ j = progress.step + 1
    BY <2>1 DEF SequenceInv, SequenceTypes, PlaceInv, Q!Steps, Saved, Waits
  <2>3. ~Stands(j)
    BY <2>1, <2>2 DEF SequenceInv, PlaceInv, Stands
  <2>4. effects' \in [Q!Steps -> Nat] /\ effects'[j] = 1
        /\ \A k \in Q!Steps : k # j => effects'[k] = effects[k]
    BY <2>1, <2>2, <2>3 DEF SequenceInv, EffectsInv
  <2>5. SequenceTypes'
    BY <2>1, <2>4 DEF SequenceInv, SequenceTypes, Own
  <2>6. PlaceInv'
    BY <2>1 DEF SequenceInv, PlaceInv, Q!Steps
  <2>7. wait.outcome # "pending"
    BY <2>2 DEF SequenceInv, PlaceInv
  <2>8. EffectsInv'
    BY <2>1, <2>4, <2>7 DEF SequenceInv, EffectsInv, Stands, Q!Steps
  <2> QED BY <2>5, <2>6, <2>8 DEF SequenceInv
<1> QED BY <1>1, <1>2, <1>3, <1>4

\* A step parks the run once: the wait before it is behind the saved progress, or of a batch
\* that came to an error.
LEMMA SequenceParks == ASSUME SequenceInv, NEW j \in Q!Steps, Q!Suspend(j) PROVE SequenceInv'
<1>1. PICK data \in {0, j} :
      /\ at = j /\ status' = "waiting" /\ UNCHANGED <<attempt, progress, lost>>
      /\ at' = 0 /\ ~did' /\ results' = <<>> /\ ~resume'
      /\ wait' = [step |-> j - 1, steps |-> results, data |-> data, by |-> attempt,
                  outcome |-> "pending"]
      /\ \/ StepKinds[j] = "wait" /\ ~did /\ ~resume /\ effects' = [effects EXCEPT ![j] = @ + 1]
         \/ StepKinds[j] = "batch" /\ did /\ UNCHANGED effects
  BY DEF Q!Suspend, Q!Parks, Q!Running, Q!Gone
<1>2. /\ j \in Nat /\ j # 0 /\ j <= Len(StepKinds) /\ Len(StepKinds) \in Nat /\ lost \in Nat
      /\ effects \in [Q!Steps -> Nat] /\ results \in Seq(Nat) /\ Own(results)
      /\ progress.step \in Nat /\ j = progress.step + 1 /\ Len(results) = progress.step
      /\ wait.step \in Nat /\ attempt \in Int /\ status = "running"
  BY <1>1 DEF SequenceInv, SequenceTypes, PlaceInv, Q!Steps, Saved, Waits
<1>3. wait.outcome # "none" => wait.step <= progress.step
  BY DEF SequenceInv, PlaceInv
<1>4. did => effects[j] = 1
  BY <1>1 DEF SequenceInv, EffectsInv
<1>5. ~did /\ ~resume => effects[j] = 0
  <2>1. SUFFICES ASSUME ~did, ~resume PROVE ~Stands(j)
    BY DEF SequenceInv, EffectsInv
  <2>2. wait.outcome # "none" => wait.step + 1 <= progress.step
    BY <1>1, <1>2, <2>1 DEF SequenceInv, PlaceInv
  <2> QED BY <1>2, <2>1, <2>2 DEF Stands
<1>6. /\ effects' \in [Q!Steps -> Nat] /\ effects'[j] = 1
      /\ \A k \in Q!Steps : k # j => effects'[k] = effects[k]
  <2>1. CASE did /\ UNCHANGED effects
    BY <1>2, <1>4, <2>1
  <2>2. CASE ~did /\ ~resume /\ effects' = [effects EXCEPT ![j] = @ + 1]
    BY <1>2, <1>5, <2>2
  <2> QED BY <1>1, <2>1, <2>2
<1>7. /\ wait' \in Waits /\ wait'.step = progress.step /\ wait'.steps = results
      /\ wait'.data = data /\ wait'.outcome = "pending"
  BY <1>1, <1>2 DEF Waits
<1>8. SequenceTypes'
  <2>1. Own(<<>>) /\ <<>> \in Seq(Nat)
    BY DEF Own
  <2> QED BY <1>1, <1>2, <1>6, <1>7, <2>1 DEF SequenceInv, SequenceTypes, Own
<1>9. PlaceInv'
  BY <1>1, <1>2, <1>7 DEF SequenceInv, PlaceInv, Q!Steps, Q!Outcomes
<1>10. EffectsInv'
  <2>1. ASSUME NEW k \in Q!Steps, k # j
        PROVE  effects'[k] = 0 \/ (effects'[k] = 1 /\ k <= progress.step)
    <3>1. k \in Nat /\ effects'[k] = effects[k]
      BY <1>6, <2>1 DEF Q!Steps
    <3>2. Stands(k) => k <= progress.step
      BY <1>1, <1>2, <1>3, <2>1, <3>1 DEF Stands
    <3> QED BY <3>1, <3>2 DEF SequenceInv, EffectsInv
  <2> QED BY <1>1, <1>2, <1>6, <1>7, <2>1 DEF EffectsInv, Stands, Q!Steps
<1> QED BY <1>8, <1>9, <1>10 DEF SequenceInv

\* The dispatcher ends the wait; the effect of a batch that errored does not stand.
LEMMA SequenceWaitEnds ==
  ASSUME SequenceInv, NEW o \in Q!Outcomes, Q!WaitEnds(o) PROVE SequenceInv'
<1>1. /\ status = "waiting" /\ wait.outcome = "pending" /\ status' = "queued"
      /\ wait' = [wait EXCEPT !.outcome = o]
      /\ IF o = "errored" THEN wait.data # 0 /\ effects' = [effects EXCEPT ![wait.data] = @ - 1]
         ELSE UNCHANGED effects
      /\ UNCHANGED <<attempt, at, did, results, resume, progress, lost>>
  BY DEF Q!WaitEnds
<1>2. /\ at = 0 /\ ~did /\ ~resume /\ wait.step + 1 \in Q!Steps /\ wait.data \in {0, wait.step + 1}
      /\ effects[wait.step + 1] = 1 /\ effects \in [Q!Steps -> Nat]
  BY <1>1 DEF SequenceInv, SequenceTypes, PlaceInv, EffectsInv, Q!Steps
<1>3. /\ wait' \in Waits /\ wait'.step = wait.step /\ wait'.steps = wait.steps
      /\ wait'.data = wait.data /\ wait'.outcome = o
  BY <1>1 DEF SequenceInv, SequenceTypes, Waits, Q!Outcomes
<1>4. /\ effects' \in [Q!Steps -> Nat]
      /\ \A k \in Q!Steps : k # wait.step + 1 => effects'[k] = effects[k]
      /\ effects'[wait.step + 1] = IF o = "errored" THEN 0 ELSE 1
  BY <1>1, <1>2
<1>5. SequenceTypes'
  BY <1>1, <1>3, <1>4 DEF SequenceInv, SequenceTypes, Own
<1>6. PlaceInv'
  BY <1>1, <1>2, <1>3 DEF SequenceInv, PlaceInv, Q!Outcomes
<1>7. EffectsInv'
  BY <1>1, <1>2, <1>3, <1>4 DEF SequenceInv, EffectsInv, Stands, Q!Steps, Q!Outcomes
<1> QED BY <1>5, <1>6, <1>7 DEF SequenceInv

LEMMA SequenceInvHolds == ASSUME Q!SequenceAssumption PROVE Q!Spec => []SequenceInv
<1>1. Q!Init => SequenceInv
  BY SequenceStarts
<1>2. ASSUME SequenceInv, [Q!Next]_(Q!vars) PROVE SequenceInv'
  <2>1. CASE Q!Begin
    BY <1>2, <2>1, SequenceBegins
  <2>2. CASE \/ Q!Interrupted \/ Q!Succeed \/ Q!Lose
             \/ \E j \in Q!Steps :
                  Q!Fail(j) \/ Q!FailAfter(j) \/ Q!FailForGood(j) \/ Q!OutcomeUnknown(j)
    BY <1>2, <2>2, SequenceEnds
  <2>3. CASE \E j \in Q!Steps : Q!Skip(j) \/ Q!Effect(j) \/ Q!Save(j) \/ Q!Resumed(j)
    BY <1>2, <2>3, SequenceSteps
  <2>4. CASE \E j \in Q!Steps : Q!Suspend(j)
    BY <1>2, <2>4, SequenceParks
  <2>5. CASE \E o \in Q!Outcomes : Q!WaitEnds(o)
    BY <1>2, <2>5, SequenceWaitEnds
  <2>6. CASE UNCHANGED Q!vars
    BY <1>2, <2>6 DEF SequenceInv, SequenceTypes, PlaceInv, EffectsInv, Stands, Own, Q!Steps, Q!vars
  <2> QED BY <1>2, <2>1, <2>2, <2>3, <2>4, <2>5, <2>6 DEF Q!Next
<1> QED BY <1>1, <1>2, PTL DEF Q!Spec

\* A step has its effect again only once the one before came to an error that is retried or was
\* lost, for every list of steps and every number of attempts: no answer that did not come, no
\* retry of another step, no wait and no resume repeats one.
THEOREM SequenceRepeatedOnlyAfterFailure ==
  ASSUME Q!SequenceAssumption PROVE Q!Spec => []Q!RepeatedOnlyAfterFailure
<1>1. SequenceInv => Q!RepeatedOnlyAfterFailure
  BY DEF SequenceInv, EffectsInv, Q!RepeatedOnlyAfterFailure
<1> QED BY <1>1, SequenceInvHolds, PTL

\* Whichever row an attempt continues from, each result is of its own step or null, and a step
\* that gets a wait back gets its own.
THEOREM SequenceResultsBelong ==
  ASSUME Q!SequenceAssumption PROVE Q!Spec => []Q!ResultsBelongToSteps
<1>1. SequenceInv => Q!ResultsBelongToSteps
  <2>1. ASSUME SequenceInv PROVE at # 0 => Len(results) = at - 1
    BY <2>1 DEF SequenceInv, SequenceTypes, PlaceInv, Saved
  <2>2. ASSUME SequenceInv PROVE \A j \in DOMAIN results : results[j] \in {0, j}
    <3>1. results \in Seq(Nat) /\ Own(results)
      BY <2>2 DEF SequenceInv, SequenceTypes
    <3> QED BY <3>1 DEF Own
  <2>3. ASSUME SequenceInv PROVE resume => wait.step = at - 1
    BY <2>3 DEF SequenceInv, SequenceTypes, PlaceInv, Saved
  <2> QED BY <2>1, <2>2, <2>3 DEF Q!ResultsBelongToSteps
<1> QED BY <1>1, SequenceInvHolds, PTL

-----------------------------------------------------------------------------
(***************************************************************************)
(* Api: what an answer says, and what asking again may do                  *)
(***************************************************************************)
Requests == [at : {"idle", "reading", "answered", "done", "lost", "settling", "restarting"},
             heard : BOOLEAN, status : Nat, did : BOOLEAN, tries : Nat]

ApiTypes ==
  /\ req \in [Reqs -> Requests] /\ made \in [Reqs -> Nat] /\ unsure \in [Reqs -> Nat]

\* What the state of request q, its question and its counts say of one another.
TrueOf(q, what, m) ==
  q.at \in {"answered", "done"} =>
    /\ q.status \in 400 .. 499 => ~q.did
    /\ q.status = 201 => q.did /\ m > 0
    /\ what = "cancel" /\ q.status \in {200, 409} => run = "ended"
    /\ what = "cancel" /\ q.status = 202 => run \in {"aborted", "ended"}
\* An effect is counted by the answer that says so, or by a client that cannot know.
CountedOf(q, what, m, u) ==
  /\ what = "keyed" => m <= 1
  /\ what = "emit" =>
       /\ q.at \notin {"settling", "restarting"}
       /\ q.at \in {"answered", "done"} /\ q.did => q.status = 201
       /\ m <= u \/ (m <= u + 1 /\ q.at \in {"answered", "done"} /\ q.heard /\ q.did)
HandlerOf(q, what) ==
  /\ q.at = "settling" => what = "cancel" /\ run \in {"aborted", "ended"}
  /\ q.at = "restarting" => what = "restart"
  /\ q.at = "done" => q.heard

ReqInv(r) ==
  /\ TrueOf(req[r], ask[r].what, made[r])
  /\ CountedOf(req[r], ask[r].what, made[r], unsure[r])
  /\ HandlerOf(req[r], ask[r].what)
ApiInv == ApiTypes /\ \A r \in Reqs : ReqInv(r)

\* A run that is over stays over, and one that was stopped only ends.
RunGoesOn ==
  /\ run = "ended" => run' = "ended"
  /\ run = "aborted" => run' \in {"aborted", "ended"}

LEMMA ApiStarts == ASSUME K!Init PROVE ApiInv
<1>1. PICK i \in Requests : i = K!Idle
  <2>1. PICK yes \in BOOLEAN : yes = TRUE
    OBVIOUS
  <2>2. PICK no \in BOOLEAN : no = FALSE
    OBVIOUS
  <2>3. [at |-> "idle", heard |-> yes, status |-> 0, did |-> no, tries |-> 0] \in Requests
    BY DEF Requests
  <2> QED BY <2>1, <2>2, <2>3 DEF K!Idle
<1>2. i.at = "idle"
  BY <1>1 DEF K!Idle
<1>3. ApiTypes
  BY <1>1 DEF K!Init, ApiTypes
<1>4. ASSUME NEW r \in Reqs PROVE ReqInv(r)
  <2>1. req[r] = i /\ made[r] = 0 /\ unsure[r] = 0
    BY <1>1 DEF K!Init
  <2> QED BY <1>2, <2>1 DEF ReqInv, TrueOf, CountedOf, HandlerOf
<1> QED BY <1>3, <1>4 DEF ApiInv

\* A request nothing is done for keeps what is said of it.
LEMMA RequestRests ==
  ASSUME NEW r \in Reqs, ReqInv(r), RunGoesOn, ask' = ask,
         req'[r] = req[r], made'[r] = made[r], unsure'[r] = unsure[r]
  PROVE  ReqInv(r)'
BY DEF ReqInv, TrueOf, CountedOf, HandlerOf, RunGoesOn

AnsweredOf(q, s, d) == [q EXCEPT !.at = "answered", !.status = s, !.did = d]

LEMMA AnsweredFields ==
  ASSUME NEW q \in Requests, NEW s \in Nat, NEW d \in BOOLEAN
  PROVE  /\ AnsweredOf(q, s, d) \in Requests /\ AnsweredOf(q, s, d).at = "answered"
         /\ AnsweredOf(q, s, d).status = s /\ AnsweredOf(q, s, d).did = d
         /\ AnsweredOf(q, s, d).heard = q.heard
<1> DEFINE there == [q EXCEPT !.at = "answered"]
           answered == [there EXCEPT !.status = s]
<1>1. there \in Requests
  BY DEF Requests
<1>2. answered \in Requests
  BY <1>1 DEF Requests
<1>3. [answered EXCEPT !.did = d] \in Requests
  BY <1>2 DEF Requests
<1>4. AnsweredOf(q, s, d) = [answered EXCEPT !.did = d]
  BY DEF AnsweredOf, Requests
<1>5. /\ AnsweredOf(q, s, d).at = "answered" /\ AnsweredOf(q, s, d).status = s
      /\ AnsweredOf(q, s, d).heard = q.heard
  BY DEF AnsweredOf, Requests
<1>6. AnsweredOf(q, s, d).did = d
  BY DEF AnsweredOf, Requests
<1> QED BY <1>3, <1>4, <1>5, <1>6

\* The answer says what was done, and to a cancel what has become of the run.
Fits(r, s, d) ==
  /\ s \in 400 .. 499 => ~d
  /\ s = 201 => d
  /\ ask[r].what = "cancel" /\ s \in {200, 409} => run' = "ended"
  /\ ask[r].what = "cancel" /\ s = 202 => run' \in {"aborted", "ended"}
  /\ ask[r].what = "keyed" /\ d => made[r] = 0
  /\ ask[r].what = "emit" => req[r].at = "reading" /\ req[r].heard /\ (d => s = 201)

LEMMA AnswerKeeps ==
  ASSUME ApiInv, NEW r \in Reqs, NEW s \in Nat, NEW d \in BOOLEAN, K!Answer(r, s, d),
         Fits(r, s, d), RunGoesOn, UNCHANGED <<ask, unsure>>
  PROVE  ApiInv'
<1>1. /\ req \in [Reqs -> Requests] /\ made \in [Reqs -> Nat] /\ unsure \in [Reqs -> Nat]
      /\ \A x \in Reqs : ReqInv(x)
  BY DEF ApiInv, ApiTypes
<1>2. req' = [req EXCEPT ![r] = AnsweredOf(req[r], s, d)]
  BY DEF K!Answer, AnsweredOf
<1>3. made' = [made EXCEPT ![r] = IF d THEN made[r] + 1 ELSE made[r]]
  BY <1>1 DEF K!Answer
<1>4. /\ req[r] \in Requests /\ made[r] \in Nat /\ unsure[r] \in Nat
  BY <1>1
<1>5. ApiTypes'
  <2>1. AnsweredOf(req[r], s, d) \in Requests
    BY <1>4, AnsweredFields
  <2>2. made' \in [Reqs -> Nat]
    BY <1>1, <1>3, <1>4
  <2> QED BY <1>1, <1>2, <2>1, <2>2 DEF ApiTypes
<1>6. ASSUME NEW x \in Reqs, x # r PROVE ReqInv(x)'
  BY <1>1, <1>2, <1>3, <1>6, RequestRests
<1>7. ReqInv(r)'
  <2>1. /\ req'[r] = AnsweredOf(req[r], s, d) /\ unsure'[r] = unsure[r] /\ ask'[r] = ask[r]
        /\ d => made'[r] = made[r] + 1
        /\ ~d => made'[r] = made[r]
    BY <1>1, <1>2, <1>3
  <2>2. /\ req'[r].at = "answered" /\ req'[r].status = s /\ req'[r].did = d
        /\ req'[r].heard = req[r].heard
    BY <1>4, <2>1, AnsweredFields
  <2>3. ReqInv(r)
    BY <1>1
  <2>4. TrueOf(req[r], ask[r].what, made[r])'
    BY <1>4, <2>1, <2>2 DEF TrueOf, Fits
  <2>5. CountedOf(req[r], ask[r].what, made[r], unsure[r])'
    BY <1>4, <2>1, <2>2, <2>3 DEF ReqInv, CountedOf, Fits
  <2>6. HandlerOf(req[r], ask[r].what)'
    BY <2>2 DEF HandlerOf
  <2> QED BY <2>4, <2>5, <2>6 DEF ReqInv
<1> QED BY <1>5, <1>6, <1>7 DEF ApiInv

LEMMA AwaitKeeps ==
  ASSUME ApiInv, NEW r \in Reqs, NEW where \in {"settling", "restarting"}, K!Await(r, where),
         ask[r].what \notin {"emit"}, RunGoesOn, UNCHANGED <<ask, unsure>>,
         where = "settling" => ask[r].what = "cancel" /\ run' \in {"aborted", "ended"},
         where = "restarting" => ask[r].what = "restart"
  PROVE  ApiInv'
<1>1. /\ req \in [Reqs -> Requests] /\ made \in [Reqs -> Nat] /\ unsure \in [Reqs -> Nat]
      /\ \A x \in Reqs : ReqInv(x)
  BY DEF ApiInv, ApiTypes
<1>2. req' = [req EXCEPT ![r] = [req[r] EXCEPT !.at = where]] /\ made' = made
  BY DEF K!Await
<1>3. [req[r] EXCEPT !.at = where] \in Requests /\ [req[r] EXCEPT !.at = where].at = where
  BY <1>1 DEF Requests
<1>4. ApiTypes'
  BY <1>1, <1>2, <1>3 DEF ApiTypes
<1>5. ASSUME NEW x \in Reqs, x # r PROVE ReqInv(x)'
  BY <1>1, <1>2, <1>5, RequestRests
<1>6. ReqInv(r)'
  <2>1. req'[r].at = where /\ made'[r] = made[r]
    BY <1>1, <1>2, <1>3
  <2>2. ReqInv(r)
    BY <1>1
  <2> QED BY <2>1, <2>2 DEF ReqInv, TrueOf, CountedOf, HandlerOf
<1> QED BY <1>4, <1>5, <1>6 DEF ApiInv

\* A handler that runs in one step answers what it did.
LEMMA ApiRoutes ==
  ASSUME ApiInv, NEW r \in Reqs, req[r].at = "reading", req[r].heard, K!Route(r),
         UNCHANGED <<ask, unsure>>
  PROVE  ApiInv'
<1>n. PICK no \in BOOLEAN : no = FALSE
  OBVIOUS
<1>y. PICK yes \in BOOLEAN : yes = TRUE
  OBVIOUS
<1>m. made[r] \in Nat
  BY DEF ApiInv, ApiTypes
<1>1. ASSUME NEW s \in Nat, K!Answer(r, s, no), UNCHANGED run, s # 201,
             ask[r].what = "cancel" => \/ s \in {400, 404, 405, 500}
                                       \/ s = 409 /\ run = "ended"
      PROVE  ApiInv'
  <2>1. Fits(r, s, no)
    BY <1>n, <1>1 DEF Fits
  <2> QED BY <1>1, <2>1, AnswerKeeps DEF RunGoesOn
<1>2. ASSUME NEW s \in {200, 201, 500}, K!Answer(r, s, yes), UNCHANGED run,
             ask[r].what # "cancel", ask[r].what = "keyed" => made[r] = 0,
             ask[r].what = "emit" => s = 201
      PROVE  ApiInv'
  <2>1. Fits(r, s, yes) /\ s \in Nat
    BY <1>y, <1>2 DEF Fits
  <2> QED BY <1>2, <2>1, AnswerKeeps DEF RunGoesOn
<1>3. CASE K!Emit(r)
  <2>1. run' = run /\ ask[r].what \in {"emit", "keyed"}
    BY <1>3 DEF K!Emit
  <2>2. CASE K!Answer(r, 500, FALSE) \/ K!Answer(r, 200, FALSE)
    <3>1. K!Answer(r, 500, no) \/ K!Answer(r, 200, no)
      BY <1>n, <2>2
    <3> QED BY <1>1, <2>1, <3>1
  <2>3. CASE /\ ~(ask[r].what = "keyed" /\ made[r] > 0)
             /\ \E explained \in BOOLEAN : K!Answer(r, K!EmitStatus(explained), TRUE)
    <3>1. K!Answer(r, 201, yes)
      BY <1>y, <2>3 DEF K!EmitStatus, K!StatusOnceCommitted
    <3> QED BY <1>2, <1>m, <2>1, <2>3, <3>1
  <2> QED BY <1>3, <2>2, <2>3 DEF K!Emit
<1>4. CASE K!RunTask(r)
  <2>1. run' = run /\ ask[r].what = "run"
    BY <1>4 DEF K!RunTask
  <2>2. \/ K!Answer(r, 404, FALSE) \/ K!Answer(r, 409, FALSE) \/ K!Answer(r, 201, TRUE)
        \/ K!Answer(r, 400, FALSE) \/ \E published \in BOOLEAN : K!Answer(r, 500, published)
    BY <1>4 DEF K!RunTask
  <2>3. CASE \/ K!Answer(r, 404, FALSE) \/ K!Answer(r, 409, FALSE) \/ K!Answer(r, 400, FALSE)
    <3>1. K!Answer(r, 404, no) \/ K!Answer(r, 409, no) \/ K!Answer(r, 400, no)
      BY <1>n, <2>3
    <3> QED BY <1>1, <2>1, <3>1
  <2>4. CASE K!Answer(r, 201, TRUE)
    <3>1. K!Answer(r, 201, yes)
      BY <1>y, <2>4
    <3> QED BY <1>2, <2>1, <3>1
  <2>5. ASSUME NEW published \in BOOLEAN, K!Answer(r, 500, published) PROVE ApiInv'
    <3>1. published = no \/ published = yes
      BY <1>n, <1>y
    <3>2. K!Answer(r, 500, no) \/ K!Answer(r, 500, yes)
      BY <2>5, <3>1
    <3> QED BY <1>1, <1>2, <2>1, <3>2
  <2> QED BY <2>2, <2>3, <2>4, <2>5
<1>5. CASE K!CancelRun(r)
  <2>1. ask[r].what = "cancel"
    BY <1>5 DEF K!CancelRun
  <2>2. CASE \/ run = "none" /\ K!Answer(r, 404, FALSE) /\ UNCHANGED run
             \/ run = "ended" /\ K!Answer(r, 409, FALSE) /\ UNCHANGED run
             \/ K!Answer(r, 500, FALSE) /\ UNCHANGED run
    <3>1. \/ K!Answer(r, 404, no) /\ UNCHANGED run
          \/ run = "ended" /\ K!Answer(r, 409, no) /\ UNCHANGED run
          \/ K!Answer(r, 500, no) /\ UNCHANGED run
      BY <1>n, <2>2
    <3> QED BY <1>1, <2>1, <3>1
  <2>3. CASE run \in {"queued", "waiting"} /\ run' = "ended" /\ K!Answer(r, 200, TRUE)
    <3>1. K!Answer(r, 200, yes)
      BY <1>y, <2>3
    <3>2. Fits(r, 200, yes)
      BY <2>1, <2>3 DEF Fits
    <3> QED BY <2>3, <3>1, <3>2, AnswerKeeps DEF RunGoesOn
  <2>4. CASE run \in {"running", "aborted"} /\ run' = "aborted" /\ K!Await(r, "settling")
    BY <2>1, <2>4, AwaitKeeps DEF RunGoesOn
  <2> QED BY <1>5, <2>2, <2>3, <2>4 DEF K!CancelRun
<1>6. CASE K!SetPaused(r) \/ K!PutState(r)
  <2>1. run' = run /\ ask[r].what \in {"pause", "resume", "put", "delete"}
    BY <1>6 DEF K!SetPaused, K!PutState
  <2>2. K!Answer(r, 404, no) \/ K!Answer(r, 500, no) \/ K!Answer(r, 200, yes)
    BY <1>6, <1>n, <1>y DEF K!SetPaused, K!PutState
  <2> QED BY <1>1, <1>2, <2>1, <2>2
<1>7. CASE K!Read(r)
  <2>1. run' = run /\ ask[r].what = "read"
    BY <1>7 DEF K!Read
  <2>2. PICK s \in {200, 400, 404, 500} : K!Answer(r, s, FALSE)
    BY <1>7 DEF K!Read
  <2>3. K!Answer(r, s, no)
    BY <1>n, <2>2
  <2> QED BY <1>1, <2>1, <2>3
<1>8. CASE K!RestartConnector(r)
  <2>1. run' = run /\ ask[r].what = "restart"
    BY <1>8 DEF K!RestartConnector
  <2>2. K!Answer(r, 409, no) \/ K!Answer(r, 404, no) \/ K!Await(r, "restarting")
    BY <1>8, <1>n DEF K!RestartConnector
  <2> QED BY <1>1, <2>1, <2>2, AwaitKeeps DEF RunGoesOn
<1>9. CASE \E s \in {404, 405} : K!Answer(r, s, FALSE) /\ UNCHANGED <<task, run, conn>>
  <2>1. PICK s \in {404, 405} : K!Answer(r, s, FALSE) /\ UNCHANGED <<task, run, conn>>
    BY <1>9
  <2>2. K!Answer(r, s, no)
    BY <1>n, <2>1
  <2> QED BY <1>1, <2>1, <2>2
<1> QED BY <1>3, <1>4, <1>5, <1>6, <1>7, <1>8, <1>9 DEF K!Route

LEMMA ApiHandles == ASSUME ApiInv, NEW r \in Reqs, K!Handle(r) PROVE ApiInv'
<1>1. req[r].at = "reading" /\ req[r].heard /\ UNCHANGED <<ask, unsure>>
  BY DEF K!Handle
<1>2. CASE K!Refusal(r) = 0
  BY <1>1, <1>2, ApiRoutes DEF K!Handle
<1>3. CASE K!Refusal(r) # 0
  <2>1. PICK no \in BOOLEAN : no = FALSE
    OBVIOUS
  <2>2. run' = run /\ K!Answer(r, K!Refusal(r), FALSE)
    BY <1>3 DEF K!Handle
  <2>3. PICK s \in {413, 400} : s = K!Refusal(r)
    BY <1>3 DEF K!Refusal
  <2>4. K!Answer(r, s, no)
    BY <2>1, <2>2, <2>3
  <2>5. Fits(r, s, no) /\ s \in Nat
    BY <1>1, <2>1, <2>3 DEF Fits
  <2> QED BY <1>1, <2>2, <2>4, <2>5, AnswerKeeps DEF RunGoesOn
<1> QED BY <1>2, <1>3

LEMMA ApiSettles == ASSUME ApiInv, NEW r \in Reqs, K!Settle(r) PROVE ApiInv'
<1>1. PICK yes \in BOOLEAN : yes = TRUE
  OBVIOUS
<1>2. /\ req[r].at = "settling" /\ UNCHANGED <<ask, unsure, run>>
      /\ K!Answer(r, K!CancelStatus(run = "aborted"), TRUE)
  BY DEF K!Settle
<1>3. ask[r].what = "cancel" /\ run \in {"aborted", "ended"}
  BY <1>2 DEF ApiInv, ReqInv, HandlerOf
<1>4. PICK s \in {200, 202} : /\ s = K!CancelStatus(run = "aborted")
                              /\ s = 200 => run = "ended"
  BY <1>3 DEF K!CancelStatus, K!SettledStatus
<1>5. K!Answer(r, s, yes)
  BY <1>1, <1>2, <1>4
<1>6. Fits(r, s, yes) /\ s \in Nat
  BY <1>1, <1>2, <1>3, <1>4 DEF Fits
<1> QED BY <1>2, <1>5, <1>6, AnswerKeeps DEF RunGoesOn

\* Connections break and clients ask again: what is said of a request that is not told holds.
LEMMA RequestMoves ==
  ASSUME ApiInv, NEW r \in Reqs, NEW q \in Requests, req' = [req EXCEPT ![r] = q],
         unsure' \in [Reqs -> Nat], \A x \in Reqs \ {r} : unsure'[x] = unsure[x],
         UNCHANGED <<ask, made, run>>,
         \/ q.at \in {"idle", "reading", "lost"}
            /\ ~(req[r].at \in {"answered", "done"} /\ req[r].heard /\ req[r].did)
            /\ unsure'[r] = unsure[r]
         \/ q.at = req[r].at /\ q.did = req[r].did /\ q.status = req[r].status
            /\ req[r].at # "done" /\ unsure'[r] = unsure[r] + 1
         \/ q.at = "done" /\ req[r].at = "answered" /\ req[r].heard
            /\ q.heard /\ q.did = req[r].did /\ q.status = req[r].status
            /\ unsure'[r] = unsure[r]
         \/ /\ ask[r].what = "emit" => ~req[r].did
            /\ req[r].at = "done" /\ q.at = "idle" /\ unsure'[r] = unsure[r]
  PROVE  ApiInv'
<1>1. /\ req \in [Reqs -> Requests] /\ made \in [Reqs -> Nat] /\ unsure \in [Reqs -> Nat]
      /\ \A x \in Reqs : ReqInv(x)
  BY DEF ApiInv, ApiTypes
<1>2. ApiTypes'
  BY <1>1 DEF ApiTypes
<1>3. ASSUME NEW x \in Reqs, x # r PROVE ReqInv(x)'
  BY <1>1, <1>3, RequestRests DEF RunGoesOn
<1>4. ReqInv(r)'
  <2>1. req'[r] = q /\ made'[r] = made[r] /\ ask'[r] = ask[r] /\ run' = run
    BY <1>1
  <2>2. ReqInv(r) /\ made[r] \in Nat /\ unsure[r] \in Nat
    BY <1>1
  <2>3. TrueOf(req[r], ask[r].what, made[r])'
    BY <2>1, <2>2 DEF ReqInv, TrueOf
  <2>4. HandlerOf(req[r], ask[r].what)'
    BY <2>1, <2>2 DEF ReqInv, HandlerOf
  <2>5. CountedOf(req[r], ask[r].what, made[r], unsure[r])'
    BY <2>1, <2>2 DEF ReqInv, CountedOf
  <2> QED BY <2>3, <2>4, <2>5 DEF ReqInv
<1> QED BY <1>2, <1>3, <1>4 DEF ApiInv

LEMMA ApiMoves ==
  ASSUME ApiInv, NEW r \in Reqs,
         K!Send(r) \/ K!Deliver(r) \/ K!Break(r) \/ K!Lose(r) \/ K!AskAgain(r)
  PROVE  ApiInv'
<1>1. /\ req[r] \in Requests /\ unsure \in [Reqs -> Nat] /\ ReqInv(r) /\ unsure[r] \in Nat
  BY DEF ApiInv, ApiTypes
<1>m. ASSUME NEW where \in {"idle", "reading", "answered", "done", "lost"}
      PROVE  /\ [req[r] EXCEPT !.at = where] \in Requests
             /\ [req[r] EXCEPT !.at = where].at = where
             /\ [req[r] EXCEPT !.at = where].heard = req[r].heard
             /\ [req[r] EXCEPT !.at = where].did = req[r].did
             /\ [req[r] EXCEPT !.at = where].status = req[r].status
  BY <1>1 DEF Requests
<1>2. CASE K!Send(r)
  <2>1. PICK i \in Requests : i = K!Idle /\ i.at = "idle"
    <3>1. PICK yes \in BOOLEAN : yes = TRUE
      OBVIOUS
    <3>2. PICK no \in BOOLEAN : no = FALSE
      OBVIOUS
    <3>3. [at |-> "idle", heard |-> yes, status |-> 0, did |-> no, tries |-> 0] \in Requests
      BY DEF Requests
    <3> QED BY <3>1, <3>2, <3>3 DEF K!Idle
  <2>2. PICK n \in Nat : n = req[r].tries + 1
    BY <1>1 DEF Requests
  <2> DEFINE q == [i EXCEPT !.at = "reading", !.tries = n]
  <2>3. q \in Requests /\ q.at = "reading"
    BY <2>1, <2>2 DEF Requests
  <2>4. req' = [req EXCEPT ![r] = q] /\ req[r].at = "idle" /\ UNCHANGED <<ask, made, unsure, run>>
    BY <1>2, <2>1, <2>2 DEF K!Send
  <2> HIDE DEF q
  <2> QED BY <1>1, <2>3, <2>4, RequestMoves
<1>3. CASE K!Deliver(r)
  <2>1. /\ req[r].at = "answered" /\ req[r].heard /\ UNCHANGED <<ask, made, unsure, run>>
        /\ req' = [req EXCEPT ![r] = [req[r] EXCEPT !.at = "done"]]
    BY <1>3 DEF K!Deliver
  <2> QED BY <1>1, <1>m, <2>1, RequestMoves
<1>4. CASE K!Break(r)
  <2>1. PICK no \in BOOLEAN : no = FALSE
    OBVIOUS
  <2>2. /\ req[r].at # "done" /\ UNCHANGED <<ask, made, run>>
        /\ req' = [req EXCEPT ![r] = [req[r] EXCEPT !.heard = no]]
        /\ unsure' = [unsure EXCEPT ![r] = unsure[r] + 1]
    BY <1>1, <1>4, <2>1 DEF K!Break, K!Waiting
  <2>3. /\ [req[r] EXCEPT !.heard = no] \in Requests
        /\ [req[r] EXCEPT !.heard = no].at = req[r].at
        /\ [req[r] EXCEPT !.heard = no].did = req[r].did
        /\ [req[r] EXCEPT !.heard = no].status = req[r].status
    BY <1>1 DEF Requests
  <2>4. /\ unsure' \in [Reqs -> Nat] /\ unsure'[r] = unsure[r] + 1
        /\ \A x \in Reqs \ {r} : unsure'[x] = unsure[x]
    BY <1>1, <2>2
  <2> QED BY <2>2, <2>3, <2>4, RequestMoves
<1>5. CASE K!Lose(r)
  <2>1. /\ ~req[r].heard /\ UNCHANGED <<ask, made, unsure, run>>
        /\ req' = [req EXCEPT ![r] = [req[r] EXCEPT !.at = "lost"]]
    BY <1>5 DEF K!Lose
  <2> QED BY <1>1, <1>m, <2>1, RequestMoves
<1>6. CASE K!AskAgain(r)
  <2>1. /\ UNCHANGED <<ask, made, unsure, run>>
        /\ req' = [req EXCEPT ![r] = [req[r] EXCEPT !.at = "idle"]]
        /\ req[r].at = "lost" \/ (req[r].at = "done" /\ req[r].status >= 500)
    BY <1>6 DEF K!AskAgain
  <2>2. req[r].at = "done" => (ask[r].what = "emit" => ~req[r].did)
    BY <1>1, <2>1 DEF ReqInv, CountedOf
  <2> QED BY <1>1, <1>m, <2>1, <2>2, RequestMoves
<1> QED BY <1>2, <1>3, <1>4, <1>5, <1>6

\* A restart answers all who wait for it.
LEMMA ApiRestarted == ASSUME ApiInv, K!Restarted PROVE ApiInv'
<1>1. /\ req \in [Reqs -> Requests] /\ made \in [Reqs -> Nat] /\ unsure \in [Reqs -> Nat]
      /\ \A x \in Reqs : ReqInv(x)
  BY DEF ApiInv, ApiTypes
<1>y. PICK yes \in BOOLEAN : yes = TRUE
  OBVIOUS
<1>2. PICK s \in {200, 500} :
        req' = [r \in Reqs |-> IF req[r].at # "restarting" THEN req[r]
                  ELSE [req[r] EXCEPT !.at = "answered", !.status = s, !.did = TRUE]]
  BY DEF K!Restarted
<1>3. /\ made' = [r \in Reqs |-> IF req[r].at = "restarting" THEN made[r] + 1 ELSE made[r]]
      /\ UNCHANGED <<ask, unsure, run>>
  BY DEF K!Restarted
<1>4. req' = [r \in Reqs |-> IF req[r].at # "restarting" THEN req[r]
                               ELSE AnsweredOf(req[r], s, yes)]
  BY <1>2, <1>y DEF AnsweredOf
<1>5. \A r \in Reqs : AnsweredOf(req[r], s, yes) \in Requests
  <2>1. ASSUME NEW r \in Reqs PROVE AnsweredOf(req[r], s, yes) \in Requests
    <3>1. req[r] \in Requests /\ s \in Nat
      BY <1>1
    <3> QED BY <3>1, AnsweredFields
  <2> QED BY <2>1
<1>6. ApiTypes'
  BY <1>1, <1>3, <1>4, <1>5 DEF ApiTypes
<1>7. ASSUME NEW r \in Reqs PROVE ReqInv(r)'
  <2>1. CASE req[r].at # "restarting"
    <3>1. req'[r] = req[r] /\ made'[r] = made[r] /\ unsure'[r] = unsure[r]
      BY <1>3, <1>4, <2>1
    <3> QED BY <1>1, <1>3, <3>1, RequestRests DEF RunGoesOn
  <2>2. CASE req[r].at = "restarting"
    <3>1. ask'[r].what = "restart"
      BY <1>1, <1>3, <2>2 DEF ReqInv, HandlerOf
    <3>2. req'[r] = AnsweredOf(req[r], s, yes)
      BY <1>4, <2>2
    <3>3. req'[r].at = "answered" /\ req'[r].status = s
      <4>1. req[r] \in Requests /\ s \in Nat
        BY <1>1
      <4> QED BY <3>2, <4>1, AnsweredFields
    <3> QED BY <3>1, <3>3 DEF ReqInv, TrueOf, CountedOf, HandlerOf
  <2> QED BY <2>1, <2>2
<1> QED BY <1>6, <1>7 DEF ApiInv

\* The server closes: who was not answered cannot know.
LEMMA ApiCloses == ASSUME ApiInv, K!Close PROVE ApiInv'
<1>1. /\ req \in [Reqs -> Requests] /\ made \in [Reqs -> Nat] /\ unsure \in [Reqs -> Nat]
      /\ \A x \in Reqs : ReqInv(x)
  BY DEF ApiInv, ApiTypes
<1> DEFINE open == {r \in Reqs : req[r].at \in {"reading", "answered"} \cup K!Waiting}
<1>n. PICK no \in BOOLEAN : no = FALSE
  OBVIOUS
<1>2. /\ req' = [r \in Reqs |-> IF r \in open THEN [req[r] EXCEPT !.heard = no] ELSE req[r]]
      /\ unsure' = [r \in Reqs |-> IF r \in open /\ req[r].heard THEN unsure[r] + 1 ELSE unsure[r]]
      /\ UNCHANGED <<ask, made, run>>
  BY <1>n DEF K!Close
<1>3. ASSUME NEW r \in Reqs
      PROVE  /\ [req[r] EXCEPT !.heard = no] \in Requests
             /\ [req[r] EXCEPT !.heard = no].at = req[r].at
             /\ [req[r] EXCEPT !.heard = no].did = req[r].did
             /\ [req[r] EXCEPT !.heard = no].status = req[r].status
             /\ ~[req[r] EXCEPT !.heard = no].heard
  BY <1>1, <1>n DEF Requests
<1>4. ApiTypes'
  BY <1>1, <1>2, <1>3 DEF ApiTypes
<1>5. ASSUME NEW r \in Reqs PROVE ReqInv(r)'
  <2>1. /\ made'[r] = made[r] /\ made[r] \in Nat /\ unsure[r] \in Nat /\ ReqInv(r)
        /\ ask' = ask /\ run' = run
    BY <1>1, <1>2
  <2>2. CASE r \in open
    <3>1. /\ req'[r].at = req[r].at /\ req'[r].did = req[r].did /\ req'[r].status = req[r].status
          /\ req[r].at # "done" /\ ~req'[r].heard
          /\ unsure'[r] = unsure[r] + 1 \/ (unsure'[r] = unsure[r] /\ ~req[r].heard)
      BY <1>2, <1>3, <2>2 DEF K!Waiting
    <3>2. TrueOf(req[r], ask[r].what, made[r])'
      BY <2>1, <3>1 DEF ReqInv, TrueOf
    <3>3. CountedOf(req[r], ask[r].what, made[r], unsure[r])'
      BY <2>1, <3>1 DEF ReqInv, CountedOf
    <3>4. HandlerOf(req[r], ask[r].what)'
      BY <2>1, <3>1 DEF ReqInv, HandlerOf
    <3> QED BY <3>2, <3>3, <3>4 DEF ReqInv
  <2>3. CASE r \notin open
    <3>1. req'[r] = req[r] /\ unsure'[r] = unsure[r]
      BY <1>2, <2>3
    <3> QED BY <2>1, <3>1, RequestRests DEF RunGoesOn
  <2> QED BY <2>2, <2>3
<1> QED BY <1>4, <1>5 DEF ApiInv

LEMMA ApiInvHolds == K!Spec => []ApiInv
<1>1. K!Init => ApiInv
  BY ApiStarts
<1>2. ASSUME ApiInv, [K!Next]_(K!vars) PROVE ApiInv'
  <2>1. CASE \E r \in Reqs : \/ K!Send(r) \/ K!Deliver(r) \/ K!Break(r) \/ K!Lose(r)
                             \/ K!AskAgain(r)
    BY <1>2, <2>1, ApiMoves
  <2>2. CASE \E r \in Reqs : K!Handle(r) \/ K!Settle(r)
    BY <1>2, <2>2, ApiHandles, ApiSettles
  <2>3. CASE K!Restarted \/ K!Close
    BY <1>2, <2>3, ApiRestarted, ApiCloses
  <2>4. CASE K!Execute \/ UNCHANGED K!vars
    <3>1. UNCHANGED <<req, made, unsure, ask>> /\ RunGoesOn
      BY <2>4 DEF K!Execute, K!vars, RunGoesOn
    <3>2. ASSUME NEW r \in Reqs PROVE ReqInv(r)'
      BY <1>2, <3>1, RequestRests DEF ApiInv
    <3> QED BY <1>2, <3>1, <3>2 DEF ApiInv, ApiTypes
  <2> QED BY <1>2, <2>1, <2>2, <2>3, <2>4 DEF K!Next
<1> QED BY <1>1, <1>2, PTL DEF K!Spec

\* An answer says what became of the request, whatever breaks, is asked again and happens to
\* the run meanwhile: a 4xx means nothing was done, 201 that it was, 200 to a cancel that the
\* run is over and stays so (api/routes.ts).
THEOREM ApiAnswersAreTrue == K!Spec => []K!AnswersAreTrue
<1>1. ApiInv => K!AnswersAreTrue
  BY DEF ApiInv, ReqInv, TrueOf, K!AnswersAreTrue, K!Told
<1> QED BY <1>1, ApiInvHolds, PTL

\* A connector that asks again after a 500 publishes its event once, but for tries whose
\* answer never came; with a dedup key it does so in any case (routes.ts).
THEOREM ApiRetryIsSafe == K!Spec => []K!RetryIsSafe
<1>1. ASSUME ApiInv, NEW r \in Reqs
      PROVE  /\ ask[r].what = "keyed" => made[r] <= 1
             /\ ask[r].what = "emit" => made[r] <= 1 + unsure[r]
  <2>1. made[r] \in Nat /\ unsure[r] \in Nat /\ ReqInv(r)
    BY <1>1 DEF ApiInv, ApiTypes
  <2> QED BY <2>1 DEF ReqInv, CountedOf
<1>2. ApiInv => K!RetryIsSafe
  BY <1>1 DEF K!RetryIsSafe
<1> QED BY <1>2, ApiInvHolds, PTL

-----------------------------------------------------------------------------
(***************************************************************************)
(* Cron: what becomes of every instant of a schedule                       *)
(***************************************************************************)

\* Induction on a set of numbers, from the least number it lacks.
LEMMA NatSet ==
  ASSUME NEW S, 0 \in S, \A n \in Nat : n \in S => n + 1 \in S
  PROVE  \A n \in Nat : n \in S
<1> DEFINE L == Nat \ S
           Less == OpToRel(<, Nat)
<1> SUFFICES ASSUME L # {} PROVE FALSE
  OBVIOUS
<1>1. IsWellFoundedOn(Less, Nat)
  BY NatLessThanWellFounded
<1>2. \A m, n \in Nat : <<n, m>> \in Less <=> n < m
  BY DEF OpToRel
<1>3. L \subseteq Nat /\ L # {}
  OBVIOUS
<1> HIDE DEF Less, L
<1>4. PICK m \in L : \A n \in L : ~(<<n, m>> \in Less)
  BY <1>1, <1>3, WFMin
<1>5. m \in Nat /\ m \notin S /\ m # 0
  BY <1>3 DEF L
<1>6. m - 1 \in Nat /\ m - 1 < m /\ (m - 1) + 1 = m
  BY <1>5
<1>7. m - 1 \in S
  BY <1>2, <1>4, <1>5, <1>6 DEF L
<1> QED BY <1>5, <1>6, <1>7

LEMMA LeastIs ==
  ASSUME NEW S, S \subseteq Nat, S # {}
  PROVE  C!Min(S) \in S /\ \A y \in S : C!Min(S) <= y
<1> DEFINE Less == OpToRel(<, Nat)
<1>1. IsWellFoundedOn(Less, Nat)
  BY NatLessThanWellFounded
<1>2. \A m, n \in Nat : <<n, m>> \in Less <=> n < m
  BY DEF OpToRel
<1> HIDE DEF Less
<1>3. PICK m \in S : \A n \in S : ~(<<n, m>> \in Less)
  BY <1>1, WFMin
<1>4. \A n \in S : ~(n < m) /\ n \in Nat /\ m \in Nat
  BY <1>2, <1>3
<1>5. m \in S /\ \A n \in S : m <= n
  BY <1>4
<1> QED BY <1>5 DEF C!Min

LEMMA GreatestIs ==
  ASSUME NEW m \in Nat, NEW S, S \subseteq 0 .. m, S # {}
  PROVE  C!Max(S) \in S /\ \A y \in S : y <= C!Max(S)
<1> DEFINE T == {k \in Nat : \E y \in S : y + k = m}
<1>1. T \subseteq Nat /\ T # {}
  <2>1. PICK y \in S : TRUE
    OBVIOUS
  <2>2. m - y \in Nat /\ y + (m - y) = m
    BY <2>1
  <2> QED BY <2>1, <2>2
<1>2. PICK k \in T : \A j \in T : k <= j
  BY <1>1, LeastIs
<1>3. PICK x \in S : x + k = m
  BY <1>2
<1>4. ASSUME NEW y \in S PROVE y <= x
  <2>1. m - y \in T /\ m - y \in Nat
    OBVIOUS
  <2>2. k <= m - y
    BY <1>2, <2>1
  <2>3. k \in Nat /\ x \in Nat /\ y \in Nat
    BY <1>2
  <2> HIDE DEF T
  <2> QED BY <1>3, <2>2, <2>3
<1>5. \A y \in S : x >= y
  BY <1>4
<1> HIDE DEF T
<1>6. C!Max(S) \in S /\ \A y \in S : C!Max(S) >= y
  BY <1>3, <1>5 DEF C!Max
<1> QED BY <1>6

LEMMA NextIs ==
  ASSUME C!CronAssumption, NEW t \in Nat
  PROVE  /\ C!NextAfter(t) \in Nat /\ \A i \in Due : i \in Nat \ {0} /\ i <= CronTime
         /\ C!NextAfter(t) = 0 => \A i \in Due : i <= t
         /\ C!NextAfter(t) # 0 =>
              /\ C!NextAfter(t) \in Due /\ t < C!NextAfter(t)
              /\ \A i \in Due : t < i => C!NextAfter(t) <= i
<1> DEFINE Left == C!Upto(t, CronTime)
<1>1. \A i \in Due : i \in Nat \ {0} /\ i <= CronTime
  BY DEF C!CronAssumption
<1>2. \A i : i \in Left <=> i \in Due /\ t < i
  BY <1>1 DEF C!Upto
<1>3. CASE Left = {}
  <2>1. C!NextAfter(t) = 0
    BY <1>3 DEF C!NextAfter
  <2> QED BY <1>1, <1>2, <1>3, <2>1
<1>4. CASE Left # {}
  <2>1. C!NextAfter(t) = C!Min(Left)
    BY <1>4 DEF C!NextAfter
  <2>2. Left \subseteq Nat
    BY <1>1, <1>2
  <2>3. C!Min(Left) \in Left /\ \A y \in Left : C!Min(Left) <= y
    BY <1>4, <2>2, LeastIs
  <2> QED BY <1>1, <1>2, <2>1, <2>3
<1> QED BY <1>3, <1>4

-----------------------------------------------------------------------------

\* The loop of lastAtOrBefore() after n turns: "last" is an instant, none lies beyond "hi", and
\* unless it is found, the turns so far are no more than they came nearer.
Searched(until, known, s, n) ==
  /\ s \in [last : Due, hi : Nat]
  /\ known <= s.last /\ s.last <= until /\ s.hi <= until
  /\ \A i \in Due : i <= until => i <= s.hi
  /\ C!IsLast(until, s) \/ s.hi + n + known <= until + s.last

LEMMA HalveSearches ==
  ASSUME C!CronAssumption, NEW until \in Nat, NEW known \in Due, NEW n \in Nat, NEW s,
         Searched(until, known, s, n)
  PROVE  Searched(until, known, C!Halve(until, s), n + 1)
<1> DEFINE mid == (s.last + s.hi) \div 2
<1>1. CASE C!IsLast(until, s)
  <2>1. C!Halve(until, s) = s
    BY <1>1 DEF C!Halve
  <2> QED BY <1>1, <2>1 DEF Searched
<1>2. CASE ~C!IsLast(until, s)
  <2>1. known \in Nat /\ s.last \in Due /\ s.last \in Nat /\ s.hi \in Nat
    BY NextIs DEF Searched
  <2>2. C!NextAfter(s.last) \in Due /\ s.last < C!NextAfter(s.last) /\ C!NextAfter(s.last) <= until
        /\ C!NextAfter(s.last) \in Nat
    BY <1>2, <2>1, NextIs DEF C!IsLast
  <2>3. s.last < s.hi
    BY <2>1, <2>2 DEF Searched
  <2>4. mid \in Nat /\ s.last <= mid /\ mid < s.hi
    BY <2>1, <2>3
  <2>5. s.hi + n + known <= until + s.last /\ s.hi <= until /\ known <= s.last
    BY <1>2 DEF Searched
  <2> HIDE DEF mid
  <2>6. CASE C!NextAfter(mid) # 0 /\ C!NextAfter(mid) <= until
    <3> DEFINE u == [s EXCEPT !.last = C!NextAfter(mid)]
    <3>1. C!Halve(until, s) = u
      BY <1>2, <2>6 DEF C!Halve, mid
    <3>2. C!NextAfter(mid) \in Due /\ C!NextAfter(mid) \in Nat /\ mid < C!NextAfter(mid)
      BY <2>4, <2>6, NextIs
    <3>3. u \in [last : Due, hi : Nat] /\ u.last = C!NextAfter(mid) /\ u.hi = s.hi
      BY <3>2 DEF Searched
    <3>4. s.hi + (n + 1) + known <= until + C!NextAfter(mid) /\ known <= C!NextAfter(mid)
      BY <2>1, <2>4, <2>5, <3>2
    <3> HIDE DEF u
    <3> QED BY <2>5, <2>6, <3>1, <3>3, <3>4 DEF Searched
  <2>7. CASE ~(C!NextAfter(mid) # 0 /\ C!NextAfter(mid) <= until)
    <3> DEFINE u == [s EXCEPT !.hi = mid]
    <3>1. C!Halve(until, s) = u
      BY <1>2, <2>7 DEF C!Halve, mid
    <3>2. u \in [last : Due, hi : Nat] /\ u.last = s.last /\ u.hi = mid
      BY <2>4 DEF Searched
    <3>3. mid + (n + 1) + known <= until + s.last /\ mid <= until
      BY <2>1, <2>4, <2>5
    <3>4. \A i \in Due : i <= until => i <= mid
      BY <2>4, <2>7, NextIs
    <3>5. known <= s.last /\ s.last <= until
      BY DEF Searched
    <3> HIDE DEF u
    <3> QED BY <3>1, <3>2, <3>3, <3>4, <3>5 DEF Searched
  <2> QED BY <2>6, <2>7
<1> QED BY <1>1, <1>2

\* The loop has as many turns as it may take.
LEMMA TurnsExist ==
  ASSUME NEW until \in Nat, NEW s
  PROVE  \E g : g = [n \in 0 .. until |-> IF n = 0 THEN s ELSE C!Halve(until, g[n - 1])]
<1> DEFINE Good(g, m) == \A n \in 0 .. m : g[n] = IF n = 0 THEN s ELSE C!Halve(until, g[n - 1])
           S == {m \in Nat : \E g : Good(g, m)}
<1>1. 0 \in S
  <2> DEFINE g == [n \in Nat |-> s]
  <2>1. Good(g, 0)
    OBVIOUS
  <2> QED BY <2>1
<1>2. ASSUME NEW m \in Nat, m \in S PROVE m + 1 \in S
  <2>1. PICK g : Good(g, m)
    BY <1>2
  <2> DEFINE h == [n \in Nat |-> IF n = 0 THEN s ELSE C!Halve(until, g[n - 1])]
  <2>2. ASSUME NEW n \in 0 .. m + 1 PROVE h[n] = IF n = 0 THEN s ELSE C!Halve(until, h[n - 1])
    <3>1. CASE n = 0
      BY <3>1
    <3>2. CASE n # 0
      <4>1. n - 1 \in 0 .. m /\ n - 1 \in Nat /\ n \in Nat
        BY <3>2
      <4>2. h[n - 1] = g[n - 1]
        BY <2>1, <4>1
      <4> QED BY <3>2, <4>1, <4>2
    <3> QED BY <3>1, <3>2
  <2>3. Good(h, m + 1)
    BY <2>2
  <2> HIDE DEF h, Good
  <2> QED BY <2>3
<1> HIDE DEF S
<1>3. until \in S
  BY <1>1, <1>2, NatSet
<1>4. PICK g : Good(g, until)
  BY <1>3 DEF S
<1> DEFINE h == [n \in 0 .. until |-> g[n]]
<1>5. ASSUME NEW n \in 0 .. until PROVE h[n] = IF n = 0 THEN s ELSE C!Halve(until, h[n - 1])
  <2>1. CASE n = 0
    BY <1>4, <2>1
  <2>2. CASE n # 0
    <3>1. n - 1 \in 0 .. until
      BY <2>2
    <3> QED BY <1>4, <2>2, <3>1
  <2> QED BY <2>1, <2>2
<1>6. h = [n \in 0 .. until |-> IF n = 0 THEN s ELSE C!Halve(until, h[n - 1])]
  BY <1>5
<1> QED BY <1>6

\* lastAtOrBefore() finds the latest instant.
LEMMA LastIsFound ==
  ASSUME C!CronAssumption, NEW until \in Nat, NEW known \in Due, known <= until
  PROVE  /\ C!LastFrom(until, known) \in Due
         /\ known <= C!LastFrom(until, known) /\ C!LastFrom(until, known) <= until
         /\ \A i \in Due : i <= until => i <= C!LastFrom(until, known)
<1> DEFINE s == [last |-> known, hi |-> until]
           g == CHOOSE f : f = [n \in 0 .. until |-> IF n = 0 THEN s ELSE C!Halve(until, f[n - 1])]
           S == {n \in Nat : n <= until => Searched(until, known, g[n], n)}
<1>1. g = [n \in 0 .. until |-> IF n = 0 THEN s ELSE C!Halve(until, g[n - 1])]
  <2> HIDE DEF s, g, S
  <2>1. \E f : f = [n \in 0 .. until |-> IF n = 0 THEN s ELSE C!Halve(until, f[n - 1])]
    BY TurnsExist, ZenonT(60)
  <2> QED BY <2>1 DEF g
<1>2. C!LastFrom(until, known) = g[until].last
  BY DEF C!LastFrom
<1> HIDE DEF g
<1>3. known \in Nat /\ \A i \in Due : i \in Nat
  BY NextIs
<1>4. 0 \in S
  <2>1. g[0] = s
    BY <1>1
  <2>2. s \in [last : Due, hi : Nat] /\ s.last = known /\ s.hi = until
    OBVIOUS
  <2>3. until + 0 + known <= until + known /\ known <= known /\ until <= until
    BY <1>3
  <2> HIDE DEF s
  <2> QED BY <1>3, <2>1, <2>2, <2>3 DEF Searched
<1>5. ASSUME NEW n \in Nat, n \in S PROVE n + 1 \in S
  <2> SUFFICES ASSUME n + 1 <= until PROVE Searched(until, known, g[n + 1], n + 1)
    OBVIOUS
  <2>1. n + 1 \in 0 .. until /\ n + 1 # 0 /\ (n + 1) - 1 = n /\ n <= until
    OBVIOUS
  <2>2. g[n + 1] = C!Halve(until, g[n])
    BY <1>1, <2>1
  <2>3. Searched(until, known, g[n], n)
    BY <1>5, <2>1
  <2> QED BY <2>2, <2>3, HalveSearches
<1> HIDE DEF S
<1>6. until \in S
  BY <1>4, <1>5, NatSet
<1> DEFINE z == g[until]
<1>7. Searched(until, known, z, until)
  BY <1>6 DEF S
<1> HIDE DEF z
<1>8. z.last \in Due /\ z.last \in Nat /\ z.hi \in Nat
  BY <1>3, <1>7 DEF Searched
<1>9. C!IsLast(until, z)
  <2> SUFFICES ASSUME ~C!IsLast(until, z) PROVE FALSE
    OBVIOUS
  <2>1. z.hi + until + known <= until + z.last
    BY <1>7 DEF Searched
  <2>2. C!NextAfter(z.last) \in Due /\ z.last < C!NextAfter(z.last) /\ C!NextAfter(z.last) <= until
    BY <1>8, NextIs DEF C!IsLast
  <2>3. C!NextAfter(z.last) <= z.hi /\ C!NextAfter(z.last) \in Nat
    BY <1>3, <1>7, <2>2 DEF Searched
  <2> QED BY <1>3, <1>8, <2>1, <2>2, <2>3
<1>10. \A i \in Due : i <= until => i <= z.last
  BY <1>8, <1>9, NextIs DEF C!IsLast
<1>11. known <= z.last /\ z.last <= until
  BY <1>7 DEF Searched
<1> QED BY <1>2, <1>8, <1>10, <1>11 DEF z

-----------------------------------------------------------------------------
CronTypes ==
  /\ now \in Nat /\ cursor \in Nat /\ since \in Nat /\ next \in Due \cup {0}
  /\ mode \in {"down", "up"} /\ present \in BOOLEAN
  /\ ticked \subseteq Due /\ caughtUp \subseteq Due /\ excused \subseteq Due
  /\ missed \in [Due -> SUBSET Due]

Accounted(i) == i \in ticked \/ i \in C!Reported \/ i \in excused

\* Nothing is accounted for before it is due; the armed timer waits for an instant after all
\* that is.
TimerInv ==
  /\ cursor <= now /\ since <= now
  /\ \A i \in ticked : i <= now
  /\ \A i \in C!Reported : i <= now
  /\ next # 0 => /\ cursor < next
                 /\ \A i \in ticked : i < next
                 /\ \A i \in C!Reported : i < next

\* Up to the cursor, and while the daemon is up, up to the instant the timer waits for, every
\* instant is accounted for; a tick is never after the cursor, but for a catch-up.
AccountInv ==
  /\ \A i \in Due : since < i /\ i <= cursor => Accounted(i)
  /\ mode = "up" /\ (next # 0 \/ cursor # 0) =>
       \A i \in Due : since < i /\ (next # 0 => i < next) => Accounted(i)
  /\ cursor # 0 => \A i \in ticked : i \in caughtUp \/ i <= cursor
  /\ \A i \in ticked : i \in C!Reported => i \in caughtUp

CronInv == CronTypes /\ TimerInv /\ AccountInv

\* What checkMissed() finds reaches from the cursor to the last instant that is due.
LEMMA MissedReach ==
  ASSUME C!CronAssumption, now \in Nat, cursor \in Nat
  PROVE  /\ C!Walked = {} => \A i \in Due : ~(cursor < i /\ i <= now)
         /\ C!Walked # {} =>
              /\ C!LastMissed \in Due /\ cursor < C!LastMissed /\ C!LastMissed <= now
              /\ \A i \in Due : i <= now => i <= C!LastMissed
              /\ C!Min(C!Walked) \in Due
<1>0. \A i \in Due : i \in Nat \ {0} /\ i <= CronTime
  BY NextIs
<1>1. MaxMissed \in Nat \ {0} /\ CronTime \in Nat
  BY DEF C!CronAssumption
<1>2. \A a, b : \A i : i \in C!Upto(a, b) <=> i \in Due /\ a < i /\ i <= b
  BY DEF C!Upto
<1>c. \A S : C!Cardinality(S) = Cardinality(S)
  BY DEF C!Cardinality, Cardinality
<1>3. ASSUME NEW a, NEW b
      PROVE  IsFiniteSet(C!Upto(a, b)) /\ Cardinality(C!Upto(a, b)) \in Nat
  <2>1. C!Upto(a, b) \subseteq 1 .. CronTime
    BY <1>0, <1>1, <1>2
  <2>2. IsFiniteSet(1 .. CronTime)
    BY <1>1, FS_Interval
  <2> QED BY <2>1, <2>2, FS_Subset, FS_CardinalityType
<1>4. \A i : i \in C!Walked <=> i \in Due /\ cursor < i /\ i <= now
                                /\ Cardinality(C!Upto(cursor, i)) <= MaxMissed
  BY <1>2, <1>c DEF C!Walked
\* The first instant after those walked is the walk's next.
<1>5. ASSUME NEW c \in Nat, cursor <= c, c <= now,
             c = cursor \/ c \in C!Walked,
             \A i \in C!Walked : i <= c,
             Cardinality(C!Upto(cursor, c)) < MaxMissed,
             NEW i \in Due, c < i, i <= now
      PROVE  FALSE
  <2> DEFINE T == C!Upto(c, now)
  <2>1. T \subseteq Nat /\ i \in T
    BY <1>0, <1>2, <1>5
  <2>2. PICK j \in T : \A k \in T : j <= k
    BY <2>1, LeastIs
  <2>3. j \in Nat /\ j \in Due /\ c < j /\ j <= now
    BY <1>0, <1>2, <2>2
  <2>4. C!Upto(cursor, j) = C!Upto(cursor, c) \cup {j}
    <3>1. ASSUME NEW k \in Due, cursor < k, k <= j, k # j PROVE k <= c
      <4>1. k \in Nat /\ ~(j <= k) /\ k <= now
        BY <1>0, <2>3, <3>1
      <4>2. k \notin T
        BY <2>2, <4>1
      <4> QED BY <1>2, <1>5, <3>1, <4>1, <4>2
    <3>2. \A k \in C!Upto(cursor, j) : k \in C!Upto(cursor, c) \cup {j}
      BY <1>2, <3>1
    <3>3. \A k \in C!Upto(cursor, c) : k \in C!Upto(cursor, j)
      BY <1>0, <1>2, <1>5, <2>3
    <3>4. j \in C!Upto(cursor, j)
      BY <1>2, <1>5, <2>3
    <3> QED BY <3>2, <3>3, <3>4
  <2>5. j \notin C!Upto(cursor, c)
    BY <1>2, <1>5, <2>3
  <2>6. Cardinality(C!Upto(cursor, j)) = Cardinality(C!Upto(cursor, c)) + 1
    BY <1>3, <2>4, <2>5, FS_AddElement
  <2>7. Cardinality(C!Upto(cursor, j)) <= MaxMissed
    BY <1>1, <1>3, <1>5, <2>6
  <2>8. j \in C!Walked
    BY <1>4, <1>5, <2>3, <2>7
  <2> QED BY <1>5, <2>3, <2>8
<1>6. CASE C!Walked = {}
  <2>1. C!Upto(cursor, cursor) = {}
    BY <1>0, <1>2
  <2>2. Cardinality(C!Upto(cursor, cursor)) < MaxMissed
    BY <1>1, <2>1, FS_EmptySet
  <2>3. ASSUME NEW i \in Due, cursor < i, i <= now PROVE FALSE
    <3>1. cursor <= now /\ cursor <= cursor
      BY <1>0, <2>3
    <3> QED BY <1>5, <1>6, <2>2, <2>3, <3>1
  <2> QED BY <1>6, <2>3
<1>7. CASE C!Walked # {}
  <2> DEFINE m == C!Max(C!Walked)
  <2>1. C!Walked \subseteq 0 .. now /\ C!Walked \subseteq Nat
    BY <1>0, <1>4
  <2>2. m \in C!Walked /\ \A i \in C!Walked : i <= m
    BY <1>7, <2>1, GreatestIs
  <2>3. m \in Due /\ cursor < m /\ m <= now /\ m \in Nat
    BY <1>0, <1>4, <2>2
  <2>4. C!Min(C!Walked) \in Due
    BY <1>4, <1>7, <2>1, LeastIs
  <2>5. CASE Cardinality(C!Walked) = MaxMissed
    <3>1. C!LastMissed = C!LastFrom(now, m)
      BY <1>c, <2>5 DEF C!LastMissed
    <3> HIDE DEF m
    <3>2. C!LastFrom(now, m) \in Due /\ m <= C!LastFrom(now, m) /\ C!LastFrom(now, m) <= now
          /\ \A i \in Due : i <= now => i <= C!LastFrom(now, m)
      BY <2>3, LastIsFound
    <3>3. C!LastFrom(now, m) \in Nat
      BY <1>0, <3>2
    <3> QED BY <1>7, <2>3, <2>4, <3>1, <3>2, <3>3
  <2>6. CASE Cardinality(C!Walked) # MaxMissed
    <3>1. C!LastMissed = m
      BY <1>c, <2>6 DEF C!LastMissed
    <3> HIDE DEF m
    <3>2. C!Walked = C!Upto(cursor, m)
      <4>1. ASSUME NEW k \in C!Upto(cursor, m) PROVE k \in C!Walked
        <5>0. k \in Due /\ cursor < k /\ k <= m
          BY <1>2, <4>1
        <5>1. k \in Due /\ cursor < k /\ k <= m /\ k \in Nat /\ k <= now
          <6>1. k \in Nat
            BY <1>0, <5>0
          <6>2. k <= now
            BY <2>3, <5>0, <6>1
          <6> QED BY <5>0, <6>1, <6>2
        <5>2. ASSUME NEW x \in C!Upto(cursor, k) PROVE x \in C!Upto(cursor, m)
          <6>1. x \in Due /\ cursor < x /\ x <= k /\ x \in Nat
            BY <1>0, <1>2, <5>2
          <6> QED BY <1>2, <2>3, <5>1, <6>1
        <5>3. Cardinality(C!Upto(cursor, k)) <= Cardinality(C!Upto(cursor, m))
          <6>1. C!Upto(cursor, k) \subseteq C!Upto(cursor, m)
            BY <5>2
          <6> QED BY <1>3, <6>1, FS_Subset
        <5>4. Cardinality(C!Upto(cursor, m)) <= MaxMissed
          BY <1>4, <2>2
        <5> QED BY <1>1, <1>3, <1>4, <5>1, <5>3, <5>4
      <4>2. \A k \in C!Walked : k \in C!Upto(cursor, m)
        BY <1>2, <1>4, <2>2
      <4> QED BY <4>1, <4>2
    <3>3. Cardinality(C!Upto(cursor, m)) < MaxMissed
      <4>1. Cardinality(C!Upto(cursor, m)) <= MaxMissed
        BY <1>4, <2>2
      <4> QED BY <1>1, <1>3, <2>6, <3>2, <4>1
    <3>4. ASSUME NEW i \in Due, i <= now PROVE i <= m
      <4>1. i \in Nat
        BY <1>0
      <4>2. CASE m < i
        BY <1>5, <2>2, <2>3, <3>3, <3>4, <4>2
      <4> QED BY <2>3, <4>1, <4>2
    <3> QED BY <1>7, <2>3, <2>4, <3>1, <3>4
  <2> QED BY <2>5, <2>6
<1> QED BY <1>6, <1>7

\* What cron.missed adds: all that was missed, unless one with the same first instant is there.
LEMMA ReportAdds ==
  ASSUME C!CronAssumption, CronTypes, C!Walked # {}, C!ReportMissed
  PROVE  /\ missed' \in [Due -> SUBSET Due]
         /\ \A i : i \in C!Reported' <=>
              \/ i \in C!Reported
              \/ /\ missed[C!Min(C!Walked)] = {}
                 /\ i \in Due /\ cursor < i /\ i <= C!LastMissed
<1> DEFINE m == C!Min(C!Walked)
           Left == C!Upto(cursor, C!LastMissed)
<1>1. m \in Due
  BY MissedReach DEF CronTypes
<1>2. \A i : i \in Left <=> i \in Due /\ cursor < i /\ i <= C!LastMissed
  BY DEF C!Upto
<1>3. missed' = [missed EXCEPT ![m] = IF missed[m] = {} THEN Left ELSE missed[m]]
  BY DEF C!ReportMissed
<1> HIDE DEF m, Left
<1>4. Left \subseteq Due
  BY <1>2
<1>5. missed' \in [Due -> SUBSET Due]
  BY <1>1, <1>3, <1>4 DEF CronTypes
<1>6. \A f \in Due : missed'[f] = IF f = m /\ missed[m] = {} THEN Left ELSE missed[f]
  BY <1>1, <1>3 DEF CronTypes
<1>7. C!Reported = UNION {missed[f] : f \in Due} /\ C!Reported' = UNION {missed'[f] : f \in Due}
  BY DEF C!Reported
<1>8. ASSUME NEW i PROVE i \in C!Reported' <=> i \in C!Reported \/ (missed[m] = {} /\ i \in Left)
  BY <1>1, <1>6, <1>7
<1> QED BY <1>2, <1>5, <1>8 DEF m

\* A step that arms the timer leaves CronInv when all that is due is accounted for.
LEMMA ArmedInv ==
  ASSUME C!CronAssumption, CronTypes', now \in Nat, now' = now, next' = C!NextAfter(now),
         cursor' <= now, since' <= now,
         \A i \in ticked' : i <= now, \A i \in C!Reported' : i <= now,
         \A i \in Due : since' < i /\ i <= now => Accounted(i)',
         cursor' # 0 => \A i \in ticked' : i \in caughtUp' \/ i <= cursor',
         \A i \in ticked' : i \in C!Reported' => i \in caughtUp'
  PROVE  CronInv'
<1>1. \A i \in Due : i \in Nat
  BY NextIs
<1>2. next' # 0 => next' \in Due /\ now < next' /\ \A i \in Due : now < i => next' <= i
  BY NextIs
<1>3. next' = 0 => \A i \in Due : i <= now
  BY NextIs
<1>4. cursor' \in Nat /\ since' \in Nat /\ ticked' \subseteq Due /\ next' \in Nat
  BY <1>1 DEF CronTypes
<1>5. \A i \in C!Reported' : i \in Due
  BY DEF CronTypes, C!Reported
<1>6. TimerInv'
  <2>1. ASSUME next' # 0 PROVE cursor' < next'
    BY <1>2, <1>4, <2>1
  <2>2. ASSUME next' # 0, NEW i \in Due, i <= now PROVE i < next'
    <3>1. i \in Nat
      BY <1>1
    <3> QED BY <1>2, <1>4, <2>2, <3>1
  <2>3. ASSUME next' # 0, NEW i \in ticked' PROVE i < next'
    BY <1>4, <2>2, <2>3
  <2>4. ASSUME next' # 0, NEW i \in C!Reported' PROVE i < next'
    BY <1>5, <2>2, <2>4
  <2> QED BY <2>1, <2>3, <2>4 DEF TimerInv
<1>7. AccountInv'
  <2>1. ASSUME NEW i \in Due, since' < i, i <= cursor' PROVE Accounted(i)'
    <3>1. i \in Nat
      BY <1>1
    <3>2. i <= now
      BY <1>4, <2>1, <3>1
    <3> QED BY <2>1, <3>2
  <2>2. ASSUME NEW i \in Due, since' < i, next' # 0 => i < next' PROVE Accounted(i)'
    <3>1. i \in Nat
      BY <1>1
    <3>2. ~(now < i)
      BY <1>2, <1>3, <1>4, <2>2, <3>1
    <3>3. i <= now
      BY <3>1, <3>2
    <3> QED BY <2>2, <3>3
  <2> QED BY <2>1, <2>2 DEF AccountInv
<1> QED BY <1>6, <1>7 DEF CronInv

LEMMA CronStarts == ASSUME C!CronAssumption, C!Init PROVE CronInv
<1>1. CronTypes
  BY DEF C!Init, CronTypes
<1>2. C!Reported = {}
  BY DEF C!Init, C!Reported
<1>3. TimerInv
  BY <1>2 DEF C!Init, TimerInv
<1>4. \A i \in Due : i \in Nat \ {0}
  BY NextIs
<1>5. AccountInv
  BY <1>4 DEF C!Init, AccountInv
<1> QED BY <1>1, <1>3, <1>5 DEF CronInv

LEMMA NextIsDue == ASSUME C!CronAssumption, CronInv PROVE C!NextAfter(now) \in Due \cup {0}
  BY NextIs DEF CronInv, CronTypes

LEMMA CheckDoneKeeps ==
  ASSUME C!CronAssumption, CronInv, C!CheckDone, now' = now, mode' \in {"down", "up"},
         present' \in BOOLEAN
  PROVE  CronInv'
<1>1. now \in Nat /\ cursor \in Nat /\ since \in Nat /\ cursor <= now /\ since <= now
  BY DEF CronInv, CronTypes, TimerInv
<1>2. next' = C!NextAfter(now) /\ cursor' = now /\ since' = IF cursor = 0 THEN now ELSE since
  BY DEF C!CheckDone, C!Arm
<1>3. next' \in Due \cup {0} /\ since' \in Nat /\ since' <= now
  BY <1>1, <1>2, NextIsDue
<1>4. \A i \in Due : i \in Nat
  BY NextIs
<1>5. \A i \in C!Reported : i \in Due /\ i <= now
  BY DEF CronInv, CronTypes, TimerInv, C!Reported
<1>6. \A i \in ticked : i \in Due /\ i <= now
  BY DEF CronInv, CronTypes, TimerInv
<1>7. CASE cursor = 0 \/ C!Walked = {}
  <2>1. ticked' = ticked /\ caughtUp' = caughtUp /\ missed' = missed /\ excused' = excused
    BY <1>7 DEF C!CheckDone
  <2>2. C!Reported' = C!Reported
    BY <2>1 DEF C!Reported
  <2>3. CronTypes'
    BY <1>1, <1>2, <1>3, <2>1 DEF CronInv, CronTypes
  <2>4. ASSUME NEW i \in Due, since' < i, i <= now PROVE Accounted(i)'
    <3>1. cursor # 0
      BY <1>1, <1>2, <1>4, <2>4
    <3>2. i <= cursor
      BY <1>1, <1>4, <1>7, <2>4, <3>1, MissedReach
    <3> QED BY <1>2, <2>1, <2>2, <2>4, <3>1, <3>2 DEF CronInv, AccountInv, Accounted
  <2> QED BY <1>1, <1>2, <1>3, <1>5, <1>6, <2>1, <2>2, <2>3, <2>4, ArmedInv
          DEF CronInv, AccountInv
<1>8. CASE cursor # 0 /\ C!Walked # {}
  <2> DEFINE l == C!LastMissed
             first == missed[C!Min(C!Walked)]
  <2>1. l \in Due /\ cursor < l /\ l <= now /\ l \in Nat
        /\ \A i \in Due : i <= now => i <= l
    BY <1>1, <1>4, <1>8, MissedReach
  <2>2. /\ C!ReportMissed /\ C!Walked # {}
        /\ excused' = IF first # {} THEN excused \cup C!Upto(cursor, now) ELSE excused
        /\ \/ ticked' = ticked \cup {l} /\ caughtUp' = caughtUp \cup {l}
           \/ ticked' = ticked /\ caughtUp' = caughtUp
    <3>1. C!ReportMissed /\ C!Walked # {}
      BY <1>8 DEF C!CheckDone
    <3>2. excused' = IF first # {} THEN excused \cup C!Upto(cursor, now) ELSE excused
      BY <1>8 DEF C!CheckDone
    <3>3. \/ ticked' = ticked \cup {l} /\ caughtUp' = caughtUp \cup {l}
          \/ ticked' = ticked /\ caughtUp' = caughtUp
      BY <1>8 DEF C!CheckDone
    <3> HIDE DEF l, first
    <3> QED BY <3>1, <3>2, <3>3
  <2> HIDE DEF l, first
  <2>3. missed' \in [Due -> SUBSET Due]
    BY <2>2, ReportAdds DEF CronInv
  <2>4. \A i : i \in C!Reported' <=>
          i \in C!Reported \/ (first = {} /\ i \in Due /\ cursor < i /\ i <= l)
    BY <2>2, ReportAdds DEF CronInv, l, first
  <2>5. \A i : i \in C!Upto(cursor, now) <=> i \in Due /\ cursor < i /\ i <= now
    BY DEF C!Upto
  <2>6. CronTypes'
    BY <1>1, <1>2, <1>3, <2>1, <2>2, <2>3, <2>5 DEF CronInv, CronTypes
  <2>7. \A i \in ticked' : i \in Due /\ i <= now
    BY <1>6, <2>1, <2>2
  <2>8. \A i \in C!Reported' : i <= now
    <3>1. ASSUME NEW i \in Due, i <= l PROVE i <= now
      BY <1>1, <1>4, <2>1, <3>1
    <3> QED BY <1>5, <2>4, <3>1
  <2>9. ASSUME NEW i \in Due, since' < i, i <= now PROVE Accounted(i)'
    <3>1. i \in Nat /\ since < i
      BY <1>2, <1>4, <1>8, <2>9
    <3>2. CASE i <= cursor
      <4>1. Accounted(i)
        BY <3>1, <3>2 DEF CronInv, AccountInv
      <4> QED BY <2>2, <2>4, <4>1 DEF Accounted
    <3>3. CASE cursor < i
      <4>1. CASE first = {}
        BY <2>1, <2>4, <2>9, <3>3, <4>1 DEF Accounted
      <4>2. CASE first # {}
        <5>1. i \in C!Upto(cursor, now)
          BY <2>5, <2>9, <3>3
        <5> QED BY <2>2, <4>2, <5>1 DEF Accounted
      <4> QED BY <4>1, <4>2
    <3> QED BY <1>1, <3>1, <3>2, <3>3
  <2>10. ASSUME NEW i \in ticked', i \in C!Reported' PROVE i \in caughtUp'
    <3>1. CASE i \in ticked
      <4>1. i \in caughtUp \/ i <= cursor
        BY <1>8, <3>1 DEF CronInv, AccountInv
      <4>2. i \in C!Reported => i \in caughtUp
        BY <3>1 DEF CronInv, AccountInv
      <4>3. i \in Nat
        BY <1>4, <2>7
      <4>4. ~(i <= cursor /\ cursor < i)
        BY <1>1, <4>3
      <4> QED BY <2>2, <2>4, <2>10, <4>1, <4>2, <4>4
    <3>2. CASE i \notin ticked
      BY <2>2, <2>10, <3>2
    <3> QED BY <3>1, <3>2
  <2>11. \A i \in ticked' : i <= cursor'
    BY <1>2, <2>7
  <2> QED BY <1>1, <1>2, <1>3, <2>6, <2>7, <2>8, <2>9, <2>10, <2>11, ArmedInv
<1> QED BY <1>7, <1>8

LEMMA CheckFailsKeeps ==
  ASSUME C!CronAssumption, CronInv, C!CheckFails, now' = now, mode' \in {"down", "up"},
         present' \in BOOLEAN
  PROVE  CronInv'
<1>1. now \in Nat /\ cursor \in Nat /\ since \in Nat /\ cursor <= now /\ since <= now
  BY DEF CronInv, CronTypes, TimerInv
<1>2. next' = C!NextAfter(now) /\ cursor' = cursor /\ since' = since /\ cursor # 0
      /\ C!Walked # {} /\ ticked' = ticked /\ caughtUp' = caughtUp
      /\ excused' = excused \cup C!Upto(cursor, now)
  BY DEF C!CheckFails, C!CheckFailed, C!Arm
<1>3. \A i \in Due : i \in Nat
  BY NextIs
<1>4. C!LastMissed \in Nat /\ C!LastMissed <= now
  BY <1>1, <1>2, <1>3, MissedReach
<1>5. \A i : i \in C!Upto(cursor, now) <=> i \in Due /\ cursor < i /\ i <= now
  BY DEF C!Upto
<1>6. /\ missed' \in [Due -> SUBSET Due]
      /\ \A i \in C!Reported : i \in C!Reported'
      /\ \A i \in C!Reported' : i \in C!Reported \/ (i \in Due /\ cursor < i /\ i <= C!LastMissed)
  <2>1. CASE missed' = missed
    BY <2>1 DEF CronInv, CronTypes, C!Reported
  <2>2. CASE C!ReportMissed
    BY <1>2, <2>2, ReportAdds DEF CronInv
  <2> QED BY <2>1, <2>2 DEF C!CheckFails
<1>7. CronTypes'
  BY <1>1, <1>2, <1>5, <1>6, NextIsDue DEF CronInv, CronTypes
<1>8. \A i \in ticked' : i \in Due /\ i <= now
  BY <1>2 DEF CronInv, CronTypes, TimerInv
<1>9. ASSUME NEW i \in C!Reported' PROVE i <= now
  <2>1. CASE i \in C!Reported
    BY <2>1 DEF CronInv, TimerInv
  <2>2. CASE i \in Due /\ i <= C!LastMissed
    BY <1>1, <1>3, <1>4, <2>2
  <2> QED BY <1>6, <1>9, <2>1, <2>2
<1>10. ASSUME NEW i \in Due, since' < i, i <= now PROVE Accounted(i)'
  <2>1. i \in Nat
    BY <1>3
  <2>2. CASE i <= cursor
    <3>1. Accounted(i)
      BY <1>2, <1>10, <2>2 DEF CronInv, AccountInv
    <3> QED BY <1>2, <1>6, <3>1 DEF Accounted
  <2>3. CASE cursor < i
    BY <1>2, <1>5, <1>10, <2>3 DEF Accounted
  <2> QED BY <1>1, <2>1, <2>2, <2>3
<1>11. ASSUME NEW i \in ticked', i \in C!Reported' PROVE i \in caughtUp'
  <2>1. i \in caughtUp \/ i <= cursor
    BY <1>2, <1>11 DEF CronInv, AccountInv
  <2>2. i \in C!Reported => i \in caughtUp
    BY <1>2, <1>11 DEF CronInv, AccountInv
  <2>3. i \in Nat
    BY <1>3, <1>8, <1>11
  <2>4. ~(i <= cursor /\ cursor < i)
    BY <1>1, <2>3
  <2> QED BY <1>2, <1>6, <1>11, <2>1, <2>2, <2>4
<1>12. \A i \in ticked' : i \in caughtUp' \/ i <= cursor'
  BY <1>2 DEF CronInv, AccountInv
<1> QED BY <1>1, <1>2, <1>7, <1>8, <1>9, <1>10, <1>11, <1>12, ArmedInv

\* Nobody waits any more: the daemon went down, or the task is gone.
LEMMA DisarmedKeeps ==
  ASSUME CronInv, now' = now, next' = 0, since' = since,
         ticked' = ticked, caughtUp' = caughtUp, missed' = missed,
         excused \subseteq excused', excused' \subseteq Due, mode' \in {"down", "up"},
         present' \in BOOLEAN,
         cursor' = 0 \/ (cursor' = cursor /\ mode' = "down")
  PROVE  CronInv'
<1>1. C!Reported' = C!Reported
  BY DEF C!Reported
<1>2. CronTypes'
  BY DEF CronInv, CronTypes
<1>3. cursor' <= now
  BY DEF CronInv, CronTypes, TimerInv
<1>4. TimerInv'
  BY <1>1, <1>3 DEF CronInv, TimerInv
<1>5. \A i : Accounted(i) => Accounted(i)'
  BY <1>1 DEF Accounted
<1>6. ASSUME NEW i \in Due, since' < i, i <= cursor' PROVE Accounted(i)'
  <2>1. CASE cursor' = cursor
    BY <1>5, <1>6, <2>1 DEF CronInv, AccountInv
  <2>2. CASE cursor' = 0
    BY <1>6, <2>2, <1>2, <1>3, <1>5 DEF CronInv, CronTypes, AccountInv
  <2> QED BY <2>1, <2>2
<1>7. AccountInv'
  BY <1>1, <1>6 DEF CronInv, AccountInv
<1> QED BY <1>2, <1>4, <1>7 DEF CronInv

LEMMA ReloadKeeps ==
  ASSUME C!CronAssumption, CronInv, NEW has \in BOOLEAN, C!Reload(has) PROVE CronInv'
<1>1. now \in Nat /\ cursor \in Nat /\ since \in Nat /\ cursor <= now /\ since <= now
      /\ next \in Due \cup {0}
  BY DEF CronInv, CronTypes, TimerInv
<1>2. \A i \in Due : i \in Nat \ {0}
  BY NextIs
<1>3. /\ now' = now /\ mode' = mode /\ mode = "up" /\ present' = has
      /\ ticked' = ticked /\ caughtUp' = caughtUp /\ missed' = missed
      /\ excused' = excused \cup (IF next = 0 THEN {} ELSE C!Upto(next - 1, now))
  BY DEF C!Reload
<1>4. C!Reported' = C!Reported
  BY <1>3 DEF C!Reported
<1>5. next # 0 => \A i : i \in C!Upto(next - 1, now) <=> i \in Due /\ next <= i /\ i <= now
  <2> SUFFICES ASSUME next # 0, NEW i \in Due PROVE next - 1 < i <=> next <= i
    BY DEF C!Upto
  <2> QED BY <1>1, <1>2
<1>6. excused \subseteq excused' /\ excused' \subseteq Due
  BY <1>3, <1>5 DEF CronInv, CronTypes
<1>7. CASE has
  <2>1. next' = C!NextAfter(now) /\ cursor' = now /\ since' = IF cursor = 0 THEN now ELSE since
    BY <1>7 DEF C!Reload, C!Arm
  <2>2. since' \in Nat /\ since' <= now
    BY <1>1, <2>1
  <2>3. CronTypes'
    BY <1>1, <1>3, <1>6, <2>1, <2>2, NextIsDue DEF CronInv, CronTypes
  <2>4. \A i \in ticked' : i <= now
    BY <1>3 DEF CronInv, TimerInv
  <2>5. \A i \in C!Reported' : i <= now
    BY <1>4 DEF CronInv, TimerInv
  <2>6. ASSUME NEW i \in Due, since' < i, i <= now PROVE Accounted(i)'
    <3>1. cursor # 0 /\ since < i /\ i \in Nat
      BY <1>1, <1>2, <2>1, <2>6
    <3>2. CASE next # 0 => i < next
      BY <1>3, <1>4, <1>6, <3>1, <3>2 DEF CronInv, AccountInv, Accounted
    <3>3. CASE next # 0 /\ ~(i < next)
      <4>1. next <= i
        BY <1>1, <1>2, <3>1, <3>3
      <4> QED BY <1>3, <1>5, <2>6, <3>3, <4>1 DEF Accounted
    <3> QED BY <3>2, <3>3
  <2>7. \A i \in ticked' : i \in C!Reported' => i \in caughtUp'
    BY <1>3, <1>4 DEF CronInv, AccountInv
  <2> QED BY <1>1, <1>3, <2>1, <2>2, <2>3, <2>4, <2>5, <2>6, <2>7, ArmedInv
<1>8. CASE ~has
  <2>1. cursor' = 0 /\ next' = 0 /\ since' = since
    BY <1>8 DEF C!Reload
  <2>2. mode' \in {"down", "up"}
    BY <1>3
  <2> QED BY <1>3, <1>6, <2>1, <2>2, DisarmedKeeps
<1> QED BY <1>7, <1>8

\* A late timer fires once, for the instant it waited for, and waits for one still to come.
LEMMA FireArms ==
  ASSUME C!CronAssumption, CronInv, next # 0, now >= next
  PROVE  C!FireNext = C!NextAfter(now)
<1>1. now \in Nat /\ next \in Nat /\ next <= now
  BY NextIs DEF CronInv, CronTypes
<1>2. {next, now} \subseteq 0 .. now /\ {next, now} # {}
  BY <1>1
<1>3. C!Max({next, now}) \in {next, now} /\ now <= C!Max({next, now})
  BY <1>1, <1>2, GreatestIs
<1>4. C!Max({next, now}) = now
  BY <1>1, <1>3
<1> QED BY <1>4 DEF C!FireNext

LEMMA FireKeeps == ASSUME C!CronAssumption, CronInv, C!Fire PROVE CronInv'
<1>1. now \in Nat /\ cursor \in Nat /\ since \in Nat /\ cursor <= now /\ since <= now
  BY DEF CronInv, CronTypes, TimerInv
<1>2. \A i \in Due : i \in Nat \ {0}
  BY NextIs
<1>3. /\ now' = now /\ mode = "up" /\ next # 0 /\ next <= now /\ next \in Due /\ next \in Nat
      /\ caughtUp' = caughtUp /\ missed' = missed /\ since' = since /\ present' = present
  BY <1>1, <1>2 DEF C!Fire, CronInv, CronTypes
<1>4. mode' \in {"down", "up"} /\ next' = IF mode' = "down" THEN 0 ELSE C!NextAfter(now)
  BY <1>3, FireArms DEF C!Fire, C!OnTick
<1>5. /\ cursor' = next \/ (cursor' = cursor /\ ticked' = ticked)
      /\ ticked' = ticked \/ (ticked' = ticked \cup {next} /\ cursor' = next)
      /\ mode' = "down" => cursor' = next /\ ticked' = ticked
  BY <1>3 DEF C!Fire, C!OnTick
<1>6. /\ \A i \in Due : i \in excused \/ (next < i /\ i <= now) => i \in excused'
      /\ next \in ticked' \/ next \in excused'
      /\ excused' \subseteq Due
  <2>1. \A i : i \in C!Upto(next, now) <=> i \in Due /\ next < i /\ i <= now
    BY DEF C!Upto
  <2>2. excused' = excused \cup C!Upto(next, now) \cup (IF next \in ticked' THEN {} ELSE {next})
    BY DEF C!Fire
  <2> QED BY <1>3, <2>1, <2>2 DEF CronInv, CronTypes
<1>7. C!Reported' = C!Reported
  BY <1>3 DEF C!Reported
<1>8. cursor' \in Nat /\ cursor' <= now
  BY <1>1, <1>3, <1>5
<1>9. next' \in Due \cup {0}
  BY <1>4, NextIsDue
<1>10. CronTypes'
  BY <1>1, <1>3, <1>4, <1>5, <1>6, <1>8, <1>9 DEF CronInv, CronTypes
<1>11. \A i \in ticked' : i <= now /\ (i # next => i \in ticked /\ i < next)
  BY <1>3, <1>5 DEF CronInv, TimerInv
<1>12. \A i \in C!Reported' : i <= now /\ i < next
  BY <1>3, <1>7 DEF CronInv, TimerInv
<1>13. ASSUME NEW i \in Due, since' < i, i <= now PROVE Accounted(i)'
  <2>1. CASE i < next
    BY <1>3, <1>5, <1>6, <1>7, <1>13, <2>1 DEF CronInv, AccountInv, Accounted
  <2>2. CASE i = next
    BY <1>6, <2>2 DEF Accounted
  <2>3. CASE next < i
    BY <1>6, <1>13, <2>3 DEF Accounted
  <2> QED BY <1>2, <1>3, <2>1, <2>2, <2>3
<1>14. ASSUME cursor' # 0, NEW i \in ticked' PROVE i \in caughtUp' \/ i <= cursor'
  <2>1. CASE cursor' = next
    <3>1. i \in Nat
      BY <1>2, <1>10 DEF CronTypes
    <3> QED BY <1>3, <1>11, <1>14, <2>1, <3>1
  <2>2. CASE cursor' = cursor /\ ticked' = ticked
    BY <1>3, <1>14, <2>2 DEF CronInv, AccountInv
  <2> QED BY <1>5, <2>1, <2>2
<1>15. ASSUME NEW i \in ticked', i \in C!Reported' PROVE i \in caughtUp'
  <2>1. i \in ticked
    BY <1>3, <1>11, <1>12, <1>15
  <2> QED BY <1>3, <1>7, <1>15, <2>1 DEF CronInv, AccountInv
<1>16. CASE mode' = "down"
  <2>1. next' = 0
    BY <1>4, <1>16
  <2>2. TimerInv'
    BY <1>1, <1>3, <1>8, <1>11, <1>12, <2>1 DEF TimerInv
  <2>3. ASSUME NEW i \in Due, since' < i, i <= cursor' PROVE Accounted(i)'
    <3>1. i <= now
      BY <1>1, <1>2, <1>8, <2>3
    <3> QED BY <1>13, <2>3, <3>1
  <2>4. AccountInv'
    BY <1>14, <1>15, <1>16, <2>3 DEF AccountInv
  <2> QED BY <1>10, <2>2, <2>4 DEF CronInv
<1>17. CASE mode' # "down"
  <2>1. next' = C!NextAfter(now)
    BY <1>4, <1>17
  <2>2. since' <= now
    BY <1>1, <1>3
  <2> QED BY <1>1, <1>3, <1>8, <1>10, <1>11, <1>12, <1>13, <1>14, <1>15, <2>1, <2>2, ArmedInv
<1> QED BY <1>16, <1>17

LEMMA TickKeeps == ASSUME C!CronAssumption, CronInv, C!Tick PROVE CronInv'
<1>1. /\ now \in Nat /\ now' = now + 1
      /\ mode' = mode /\ present' = present /\ next' = next /\ cursor' = cursor
      /\ ticked' = ticked /\ caughtUp' = caughtUp /\ missed' = missed
      /\ since' = since /\ excused' = excused
  BY DEF CronInv, CronTypes, C!Tick
<1>2. \A i \in Nat : i <= now => i <= now'
  BY <1>1
<1>3. C!Reported' = C!Reported /\ \A i \in C!Reported : i \in Nat
  BY <1>1, NextIs DEF C!Reported, CronInv, CronTypes
<1>4. \A i \in ticked : i \in Nat
  BY NextIs DEF CronInv, CronTypes
<1>5. CronTypes'
  BY <1>1 DEF CronInv, CronTypes
<1>6. TimerInv'
  BY <1>1, <1>2, <1>3, <1>4 DEF CronInv, CronTypes, TimerInv
<1>7. \A i : Accounted(i)' <=> Accounted(i)
  BY <1>1, <1>3 DEF Accounted
<1>8. AccountInv'
  BY <1>1, <1>3, <1>7 DEF CronInv, AccountInv
<1> QED BY <1>5, <1>6, <1>8 DEF CronInv

LEMMA CronInvHolds == ASSUME C!CronAssumption PROVE C!Spec => []CronInv
<1>1. C!Init => CronInv
  BY CronStarts
<1>2. ASSUME CronInv, [C!Next]_(C!vars) PROVE CronInv'
  <2>1. CASE C!Start
    <3>1. now' = now /\ present' = present /\ mode' = "up" /\ present \in BOOLEAN
      BY <1>2, <2>1 DEF C!Start, CronInv, CronTypes
    <3>2. mode' \in {"down", "up"} /\ present' \in BOOLEAN
      BY <3>1
    <3>3. CASE C!CheckDone
      BY <1>2, <3>1, <3>2, <3>3, CheckDoneKeeps
    <3>4. CASE C!CheckFails
      BY <1>2, <3>1, <3>2, <3>4, CheckFailsKeeps
    <3>5. CASE ~present
      <4>1. /\ cursor' = 0 /\ next' = 0 /\ ticked' = ticked /\ caughtUp' = caughtUp
            /\ missed' = missed /\ since' = since /\ excused' = excused
        BY <2>1, <3>5 DEF C!Start
      <4> QED BY <1>2, <3>1, <3>2, <4>1, DisarmedKeeps DEF CronInv, CronTypes
    <3> QED BY <2>1, <3>3, <3>4, <3>5 DEF C!Start
  <2>2. CASE C!Fire
    BY <1>2, <2>2, FireKeeps
  <2>3. CASE C!Edit
    <3>1. /\ mode = "down" /\ present' = ~present /\ now' = now /\ mode' = mode /\ next' = next
          /\ cursor' = cursor /\ ticked' = ticked /\ caughtUp' = caughtUp /\ missed' = missed
          /\ since' = since /\ excused' = excused
      BY <2>3 DEF C!Edit
    <3>2. C!Reported' = C!Reported
      BY <3>1 DEF C!Reported
    <3>3. CronTypes'
      BY <1>2, <3>1 DEF CronInv, CronTypes
    <3>4. \A i : Accounted(i)' <=> Accounted(i)
      BY <3>1, <3>2 DEF Accounted
    <3>5. TimerInv'
      BY <1>2, <3>1, <3>2 DEF CronInv, TimerInv
    <3> QED BY <1>2, <3>1, <3>2, <3>3, <3>4, <3>5 DEF CronInv, AccountInv
  <2>4. CASE C!Stop
    <3>1. /\ mode' = "down" /\ next' = 0 /\ now' = now /\ present' = present
          /\ cursor' = cursor /\ ticked' = ticked /\ caughtUp' = caughtUp /\ missed' = missed
          /\ since' = since /\ excused' = excused
      BY <2>4 DEF C!Stop
    <3>2. excused \subseteq excused' /\ excused' \subseteq Due /\ present' \in BOOLEAN
      BY <1>2, <3>1 DEF CronInv, CronTypes
    <3> QED BY <1>2, <3>1, <3>2, DisarmedKeeps
  <2>5. CASE C!Tick
    BY <1>2, <2>5, TickKeeps
  <2>6. CASE \E has \in BOOLEAN : C!Reload(has)
    BY <1>2, <2>6, ReloadKeeps
  <2>7. CASE UNCHANGED C!vars
    <3>1. /\ now' = now /\ mode' = mode /\ present' = present /\ next' = next
          /\ cursor' = cursor /\ ticked' = ticked /\ caughtUp' = caughtUp /\ missed' = missed
          /\ since' = since /\ excused' = excused
      BY <2>7 DEF C!vars
    <3>2. C!Reported' = C!Reported
      BY <3>1 DEF C!Reported
    <3> QED BY <1>2, <3>1, <3>2 DEF CronInv, CronTypes, TimerInv, AccountInv, Accounted
  <2> QED BY <1>2, <2>1, <2>2, <2>3, <2>4, <2>5, <2>6, <2>7 DEF C!Next
<1> QED BY <1>1, <1>2, PTL DEF C!Spec

\* No instant of a schedule falls between a tick and a miss, over late timers, failed checks,
\* reloads, crashes and tasks that come and go (cron.ts, onTick and checkMissed).
THEOREM CronNothingForgotten == ASSUME C!CronAssumption PROVE C!Spec => []C!NoInstantForgotten
<1>1. CronInv => C!NoInstantForgotten
  BY DEF CronInv, AccountInv, Accounted, C!NoInstantForgotten
<1> QED BY <1>1, CronInvHolds, PTL

\* An instant is run or reported as missed and not both, but for the one a catch-up ran.
THEOREM CronTickedOrMissed == ASSUME C!CronAssumption PROVE C!Spec => []C!TickedOrMissed
<1>1. CronInv => C!TickedOrMissed
  BY DEF CronInv, AccountInv, C!TickedOrMissed
<1> QED BY <1>1, CronInvHolds, PTL

-----------------------------------------------------------------------------
(***************************************************************************)
(* Poller: what the seen list remembers                                    *)
(***************************************************************************)

\* One turn of Picked, and that it has a result for every sequence.
PickTurn(q, Where, f, n) ==
  IF n = 0 THEN <<>> ELSE IF n \in Where THEN Append(f[n - 1], q[n]) ELSE f[n - 1]
LEMMA PicksExist ==
  ASSUME NEW q, NEW l \in Nat, NEW Where
  PROVE  \E g : g = [n \in 0 .. l |-> PickTurn(q, Where, g, n)]
<1> DEFINE Rec(g, n) == PickTurn(q, Where, g, n)
           Good(g, m) == \A n \in 0 .. m : g[n] = Rec(g, n)
           S == {m \in Nat : \E g : Good(g, m)}
<1>1. 0 \in S
  <2> DEFINE g == [n \in Nat |-> <<>>]
  <2>1. Good(g, 0)
    BY DEF PickTurn
  <2> QED BY <2>1
<1>2. ASSUME NEW m \in Nat, m \in S PROVE m + 1 \in S
  <2>1. PICK g : Good(g, m)
    BY <1>2
  <2> DEFINE h == [n \in Nat |-> Rec(g, n)]
  <2>2. ASSUME NEW n \in 0 .. m + 1 PROVE h[n] = Rec(h, n)
    <3>1. CASE n = 0
      BY <3>1 DEF PickTurn
    <3>2. CASE n # 0
      <4>1. n - 1 \in 0 .. m /\ n - 1 \in Nat /\ n \in Nat
        BY <3>2
      <4>2. h[n - 1] = g[n - 1]
        BY <2>1, <4>1
      <4> QED BY <3>2, <4>1, <4>2 DEF PickTurn
    <3> QED BY <3>1, <3>2
  <2>3. Good(h, m + 1)
    BY <2>2
  <2> HIDE DEF h, Good
  <2> QED BY <2>3
<1> HIDE DEF S
<1>3. l \in S
  BY <1>1, <1>2, NatSet
<1>4. PICK g : Good(g, l)
  BY <1>3 DEF S
<1> DEFINE h == [n \in 0 .. l |-> g[n]]
<1>5. ASSUME NEW n \in 0 .. l PROVE h[n] = Rec(h, n)
  <2>1. CASE n = 0
    BY <1>4, <2>1 DEF PickTurn
  <2>2. CASE n # 0
    <3>1. n - 1 \in 0 .. l
      BY <2>2
    <3> QED BY <1>4, <2>2, <3>1 DEF PickTurn
  <2> QED BY <2>1, <2>2
<1>6. h = [n \in 0 .. l |-> Rec(h, n)]
  BY <1>5
<1> QED BY <1>6

\* What is picked is a sequence of what was there to pick.
LEMMA PickedIs ==
  ASSUME NEW T, NEW q \in Seq(T), NEW Where, Where \subseteq 1 .. Len(q)
  PROVE  /\ P!Picked(q, Where) \in Seq(T)
         /\ P!ToSet(P!Picked(q, Where)) = {q[i] : i \in Where}
<1> DEFINE l == Len(q)
           g == CHOOSE f : f = [n \in 0 .. l |-> PickTurn(q, Where, f, n)]
           Holds(n) == /\ g[n] \in Seq(T)
                       /\ \A x : (\E j \in 1 .. Len(g[n]) : g[n][j] = x)
                                   <=> \E i \in Where : i <= n /\ q[i] = x
           S == {n \in Nat : n <= l => Holds(n)}
<1>0. l \in Nat
  OBVIOUS
<1>1. P!Picked(q, Where) = g[l]
  BY DEF P!Picked, PickTurn
<1>2. g = [n \in 0 .. l |-> PickTurn(q, Where, g, n)]
  <2> HIDE DEF l
  <2>1. \E f : f = [n \in 0 .. l |-> PickTurn(q, Where, f, n)]
    BY <1>0, PicksExist
  <2> QED BY <2>1
<1> HIDE DEF g, Holds
<1>3. 0 \in S
  <2>1. g[0] = <<>>
    BY <1>0, <1>2 DEF PickTurn
  <2>2. \A i \in Where : ~(i <= 0)
    OBVIOUS
  <2>3. Len(<<>>) = 0 /\ <<>> \in Seq(T) /\ \A j : j \notin 1 .. 0
    OBVIOUS
  <2>4. Holds(0)
    BY <2>1, <2>2, <2>3 DEF Holds
  <2> QED BY <2>4
<1>4. ASSUME NEW n \in Nat, n \in S PROVE n + 1 \in S
  <2> SUFFICES ASSUME n + 1 <= l PROVE Holds(n + 1)
    OBVIOUS
  <2>1. Holds(n) /\ n + 1 \in 0 .. l /\ n + 1 # 0 /\ (n + 1) - 1 = n /\ n + 1 \in 1 .. l
    BY <1>0, <1>4
  <2>2. g[n + 1] = IF n + 1 \in Where THEN Append(g[n], q[n + 1]) ELSE g[n]
    BY <1>2, <2>1 DEF PickTurn
  <2>3. \A i \in Where : i \in Nat /\ (i <= n + 1 <=> i <= n \/ i = n + 1)
    OBVIOUS
  <2>4. CASE n + 1 \in Where
    <3> DEFINE p == g[n]
               e == q[n + 1]
    <3>1. p \in Seq(T) /\ e \in T /\ g[n + 1] = Append(p, e)
      BY <2>1, <2>2, <2>4 DEF Holds
    <3>2. \A x : (\E j \in 1 .. Len(p) : p[j] = x) <=> \E i \in Where : i <= n /\ q[i] = x
      BY <2>1 DEF Holds
    <3>e. e = q[n + 1]
      OBVIOUS
    <3> HIDE DEF p, e
    <3>3. /\ Append(p, e) \in Seq(T) /\ Len(Append(p, e)) = Len(p) + 1 /\ Len(p) \in Nat
          /\ Append(p, e)[Len(p) + 1] = e
          /\ \A j \in 1 .. Len(p) : Append(p, e)[j] = p[j]
      BY <3>1
    <3>4. \A x : (\E j \in 1 .. Len(p) + 1 : Append(p, e)[j] = x)
                   <=> (\E j \in 1 .. Len(p) : p[j] = x) \/ x = e
      <4>1. ASSUME NEW x, NEW j \in 1 .. Len(p) + 1, Append(p, e)[j] = x
            PROVE  (\E k \in 1 .. Len(p) : p[k] = x) \/ x = e
        <5>1. j = Len(p) + 1 \/ j \in 1 .. Len(p)
          BY <3>3
        <5> QED BY <3>3, <4>1, <5>1
      <4>2. ASSUME NEW x, NEW j \in 1 .. Len(p), p[j] = x
            PROVE  \E k \in 1 .. Len(p) + 1 : Append(p, e)[k] = x
        <5>1. j \in 1 .. Len(p) + 1
          BY <3>3
        <5> QED BY <3>3, <4>2, <5>1
      <4>3. Len(p) + 1 \in 1 .. Len(p) + 1
        BY <3>3
      <4> QED BY <3>3, <4>1, <4>2, <4>3
    <3>5. \A x : (\E i \in Where : i <= n + 1 /\ q[i] = x)
                   <=> (\E i \in Where : i <= n /\ q[i] = x) \/ x = e
      BY <2>3, <2>4, <3>e
    <3>6. \A x : (\E j \in 1 .. Len(g[n + 1]) : g[n + 1][j] = x)
                   <=> \E i \in Where : i <= n + 1 /\ q[i] = x
      <4>1. Len(g[n + 1]) = Len(p) + 1
        BY <3>1, <3>3
      <4> QED BY <3>1, <3>2, <3>4, <3>5, <4>1
    <3> QED BY <3>1, <3>3, <3>6 DEF Holds
  <2>5. CASE n + 1 \notin Where
    <3>1. \A i \in Where : i <= n + 1 <=> i <= n
      BY <2>3, <2>5
    <3>2. g[n + 1] = g[n]
      BY <2>2, <2>5
    <3> QED BY <2>1, <3>1, <3>2 DEF Holds
  <2> QED BY <2>4, <2>5
<1> HIDE DEF S
<1>5. l \in S
  BY <1>0, <1>3, <1>4, NatSet
<1>6. Holds(l)
  BY <1>0, <1>5 DEF S
<1>7. P!ToSet(g[l]) = {g[l][j] : j \in 1 .. Len(g[l])}
  BY <1>6 DEF Holds, P!ToSet
<1>8. \A i \in Where : i <= l
  OBVIOUS
<1>9. \A x : x \in P!ToSet(g[l]) <=> \E i \in Where : q[i] = x
  BY <1>6, <1>7, <1>8 DEF Holds
<1> QED BY <1>1, <1>6, <1>9 DEF Holds

\* What the seen list names, as a set.
Items(q) == {q[i] : i \in 1 .. Len(q)}

LEMMA ItemsAre == ASSUME NEW T, NEW q \in Seq(T) PROVE P!ToSet(q) = Items(q) /\ Items(q) \subseteq T
  BY DEF P!ToSet, Items

\* [...new Set(keys)] has every key.
LEMMA CurrentIs ==
  ASSUME NEW T, NEW q \in Seq(T)
  PROVE  P!Current(q) \in Seq(T) /\ Items(P!Current(q)) = Items(q)
<1> DEFINE Where == {i \in DOMAIN q : \A j \in 1 .. i - 1 : q[j] # q[i]}
<1>1. Where \subseteq 1 .. Len(q)
  OBVIOUS
<1>2. P!Current(q) = P!Picked(q, Where)
  BY DEF P!Current
<1>3. \A i \in Where : q[i] \in Items(q)
  BY <1>1 DEF Items
<1>4. ASSUME NEW k \in 1 .. Len(q) PROVE \E i \in Where : q[i] = q[k]
  <2> DEFINE Same == {j \in 1 .. Len(q) : q[j] = q[k]}
  <2>1. Same \subseteq Nat /\ k \in Same
    OBVIOUS
  <2> HIDE DEF Same
  <2>2. PICK m \in Same : \A j \in Same : m <= j
    BY <2>1, LeastIs
  <2>3. m \in 1 .. Len(q) /\ q[m] = q[k]
    BY <2>2 DEF Same
  <2>4. ASSUME NEW j \in 1 .. m - 1, q[j] = q[m] PROVE FALSE
    <3>1. j \in 1 .. Len(q) /\ ~(m <= j)
      BY <2>3
    <3>2. j \in Same
      BY <2>3, <2>4, <3>1 DEF Same
    <3> QED BY <2>2, <3>1, <3>2
  <2>5. m \in Where
    BY <2>3, <2>4
  <2> QED BY <2>3, <2>5
<1> HIDE DEF Where
<1>5. P!Picked(q, Where) \in Seq(T) /\ P!ToSet(P!Picked(q, Where)) = {q[i] : i \in Where}
  BY <1>1, PickedIs
<1>6. P!ToSet(P!Picked(q, Where)) = Items(P!Picked(q, Where))
  BY <1>5, ItemsAre
<1>7. {q[i] : i \in Where} = Items(q)
  BY <1>3, <1>4 DEF Items
<1> QED BY <1>2, <1>5, <1>6, <1>7

LEMMA LastOfIs ==
  ASSUME NEW T, NEW q \in Seq(T), NEW n \in Nat
  PROVE  P!LastOf(q, n) \in Seq(T) /\ Items(P!LastOf(q, n)) \subseteq Items(q)
<1>1. CASE n >= Len(q)
  BY <1>1 DEF P!LastOf
<1>2. CASE ~(n >= Len(q))
  <2> DEFINE m == Len(q) - n + 1
             p == SubSeq(q, m, Len(q))
  <2>0. Len(q) \in Nat
    OBVIOUS
  <2>1. m \in 1 .. Len(q) + 1 /\ Len(q) \in Nat
    BY <1>2, <2>0
  <2>2. P!LastOf(q, n) = p
    BY <1>2 DEF P!LastOf
  <2>3. p \in Seq(T) /\ Len(p) = Len(q) - m + 1 /\ \A i \in 1 .. Len(p) : p[i] = q[m + i - 1]
    BY <2>1
  <2>4. \A i \in 1 .. Len(p) : m + i - 1 \in 1 .. Len(q)
    BY <2>1, <2>3
  <2> HIDE DEF m, p
  <2>5. Items(p) \subseteq Items(q)
    BY <2>3, <2>4 DEF Items
  <2> QED BY <2>2, <2>3, <2>5
<1> QED BY <1>1, <1>2

LEMMA JoinedIs ==
  ASSUME NEW T, NEW p \in Seq(T), NEW q \in Seq(T)
  PROVE  p \o q \in Seq(T) /\ Items(p \o q) = Items(p) \cup Items(q)
<1>1. /\ p \o q \in Seq(T) /\ Len(p \o q) = Len(p) + Len(q)
      /\ \A i \in 1 .. Len(p) + Len(q) :
           (p \o q)[i] = IF i <= Len(p) THEN p[i] ELSE q[i - Len(p)]
  OBVIOUS
<1>2. Len(p) \in Nat /\ Len(q) \in Nat
  OBVIOUS
<1>3. ASSUME NEW i \in 1 .. Len(p) + Len(q) PROVE (p \o q)[i] \in Items(p) \cup Items(q)
  <2>1. CASE i <= Len(p)
    BY <1>1, <1>2, <2>1 DEF Items
  <2>2. CASE ~(i <= Len(p))
    <3>1. i - Len(p) \in 1 .. Len(q)
      BY <1>2, <2>2
    <3> QED BY <1>1, <2>2, <3>1 DEF Items
  <2> QED BY <2>1, <2>2
<1>4. ASSUME NEW i \in 1 .. Len(p) PROVE p[i] \in Items(p \o q)
  <2>1. i \in 1 .. Len(p) + Len(q) /\ i <= Len(p)
    BY <1>2
  <2>2. (p \o q)[i] = p[i]
    BY <1>1, <2>1
  <2> QED BY <1>1, <2>1, <2>2 DEF Items
<1>5. ASSUME NEW i \in 1 .. Len(q) PROVE q[i] \in Items(p \o q)
  <2>1. i + Len(p) \in 1 .. Len(p) + Len(q) /\ ~(i + Len(p) <= Len(p)) /\ (i + Len(p)) - Len(p) = i
    BY <1>2
  <2>2. (p \o q)[i + Len(p)] = q[i]
    BY <1>1, <2>1
  <2> QED BY <1>1, <2>1, <2>2 DEF Items
<1> QED BY <1>1, <1>3, <1>4, <1>5 DEF Items

\* The next seen list has every key of the result, and else only keys that were seen.
LEMMA SeenNextIs ==
  ASSUME P!PollerAssumption, NEW q \in Seq(Keys), seen = P!NoEntry \/ seen \in Seq(Keys)
  PROVE  /\ P!SeenNext(q) \in Seq(Keys)
         /\ Items(q) \subseteq Items(P!SeenNext(q))
         /\ Items(P!SeenNext(q)) \subseteq P!SeenSet \cup Items(q)
<1> DEFINE had == IF seen = P!NoEntry THEN <<>> ELSE seen
           Where == {i \in DOMAIN had : had[i] \notin P!ToSet(q)}
           c == P!Current(q)
           room == IF Keep > Len(c) THEN Keep - Len(c) ELSE 0
           p == P!Previous(q)
<1>1. had \in Seq(Keys)
  OBVIOUS
<1>2. Items(had) = P!SeenSet
  <2>1. CASE seen = P!NoEntry
    BY <2>1 DEF Items, P!SeenSet
  <2>2. CASE seen # P!NoEntry
    BY <2>2, ItemsAre DEF P!SeenSet
  <2> QED BY <2>1, <2>2
<1>3. p = P!Picked(had, Where) /\ Where \subseteq 1 .. Len(had)
  BY <1>1 DEF P!Previous
<1>4. P!SeenNext(q) = P!LastOf(p, room) \o c
  BY DEF P!SeenNext
<1> HIDE DEF had, Where, p
<1>5. p \in Seq(Keys) /\ P!ToSet(p) = {had[i] : i \in Where}
  BY <1>1, <1>3, PickedIs
<1>6. Items(p) \subseteq P!SeenSet
  <2>1. P!ToSet(p) = Items(p)
    BY <1>5, ItemsAre
  <2>2. \A i \in Where : had[i] \in Items(had)
    BY <1>3 DEF Items
  <2> QED BY <1>2, <1>5, <2>1, <2>2
<1>7. c \in Seq(Keys) /\ Items(c) = Items(q)
  BY CurrentIs
<1> HIDE DEF c
<1>8. room \in Nat
  BY <1>7 DEF P!PollerAssumption
<1> HIDE DEF room
<1>9. P!LastOf(p, room) \in Seq(Keys) /\ Items(P!LastOf(p, room)) \subseteq Items(p)
  BY <1>5, <1>8, LastOfIs
<1>10. P!SeenNext(q) \in Seq(Keys) /\ Items(P!SeenNext(q)) = Items(P!LastOf(p, room)) \cup Items(c)
  BY <1>4, <1>7, <1>9, JoinedIs
<1> QED BY <1>6, <1>7, <1>9, <1>10

\* The keys in the seen list were emitted or skipped, and those of items that stay are in it.
PollerInv ==
  /\ seen = P!NoEntry \/ seen \in Seq(Keys)
  /\ emitted \in [Keys -> Nat] /\ stored \subseteq Keys
  /\ \A k \in stored : emitted[k] > 0
  /\ P!SeenWasEmitted
  /\ steady \subseteq P!SeenSet

LEMMA PollerStep ==
  ASSUME P!PollerAssumption, PollerInv, [P!Next]_(P!vars)
  PROVE  PollerInv' /\ [P!SteadyItemQuiet]_(P!vars)
<1> DEFINE Quiet == /\ seen' = seen /\ emitted' = emitted
                    /\ seeded' = seeded /\ steady' = steady /\ stored' \subseteq stored
<1>1. CASE Quiet
  <2>1. P!SeenSet' = P!SeenSet
    BY <1>1 DEF P!SeenSet
  <2>2. PollerInv'
    BY <1>1, <2>1 DEF PollerInv, P!SeenWasEmitted
  <2> QED BY <1>1, <2>2 DEF P!SteadyItemQuiet
<1>2. CASE \E q \in P!Results : P!Answered(q)
  <2>1. PICK q \in P!Results : P!Answered(q)
    BY <1>2
  <2>2. q \in Seq(Keys)
    BY DEF P!Results, P!PollerAssumption
  <2>3. P!ToSet(q) = Items(q) /\ Items(q) \subseteq Keys
    BY <2>2, ItemsAre
  <2>4. /\ stored' = stored \cup P!Inserted(q)
        /\ emitted' = [k \in Keys |-> emitted[k] + (IF k \in P!Inserted(q) THEN 1 ELSE 0)]
        /\ seeded' = (IF P!Skips THEN seeded \cup P!Fresh(q) ELSE seeded)
        /\ steady' = (steady \cap Items(q)) \cup P!Fresh(q)
        /\ seen' = P!SeenNext(q)
    BY <2>1, <2>3 DEF P!Answered, P!DiffAndEmit
  <2>5. P!Fresh(q) = Items(q) \ P!SeenSet
    BY <2>3 DEF P!Fresh
  <2>6. P!Inserted(q) = IF P!Skips THEN {} ELSE P!Fresh(q) \ stored
    BY DEF P!Inserted
  <2>7. /\ seen' \in Seq(Keys) /\ Items(q) \subseteq Items(seen')
        /\ Items(seen') \subseteq P!SeenSet \cup Items(q)
    BY <2>2, <2>4, SeenNextIs DEF PollerInv
  <2>8. seen' # P!NoEntry
    <3>1. ASSUME seen' = <<"none">> PROVE FALSE
      <4>1. "none" \in Keys
        BY <2>7, <3>1
      <4> QED BY <4>1 DEF P!PollerAssumption
    <3> QED BY <3>1 DEF P!NoEntry
  <2>9. P!SeenSet' = Items(seen')
    <3>1. P!ToSet(seen') = Items(seen')
      BY <2>7, ItemsAre
    <3> QED BY <2>8, <3>1 DEF P!SeenSet
  <2>10. emitted' \in [Keys -> Nat] /\ \A k \in Keys : emitted'[k] = emitted[k]
           + (IF k \in P!Inserted(q) THEN 1 ELSE 0)
    BY <2>4 DEF PollerInv
  <2>11. P!SteadyItemQuiet
    <3> SUFFICES ASSUME NEW k \in steady PROVE emitted'[k] = emitted[k]
      BY DEF P!SteadyItemQuiet
    <3>1. k \in P!SeenSet
      BY DEF PollerInv
    <3>2. k \notin P!Inserted(q)
      BY <2>5, <2>6, <3>1
    <3>3. k \in Keys
      <4>1. seen # P!NoEntry
        BY <3>1 DEF P!SeenSet
      <4>2. P!SeenSet = Items(seen) /\ Items(seen) \subseteq Keys
        BY <4>1, ItemsAre DEF PollerInv, P!SeenSet
      <4> QED BY <3>1, <4>2
    <3>4. emitted[k] \in Nat
      BY <3>3 DEF PollerInv
    <3> QED BY <2>10, <3>2, <3>3, <3>4
  <2>12. steady' \subseteq P!SeenSet'
    BY <2>4, <2>5, <2>7, <2>9
  <2>13. stored' \subseteq Keys
    BY <2>3, <2>4, <2>5, <2>6 DEF PollerInv
  <2>14. ASSUME NEW k \in Keys, k \in stored' \/ k \in P!Fresh(q)
         PROVE  emitted'[k] > 0 \/ k \in seeded'
    <3>0. emitted[k] \in Nat
      BY DEF PollerInv
    <3>1. CASE k \in stored
      <4>1. emitted[k] > 0
        BY <3>1 DEF PollerInv
      <4> QED BY <2>10, <3>0, <4>1
    <3>2. CASE k \in P!Inserted(q)
      BY <2>10, <3>0, <3>2
    <3>3. CASE k \notin stored /\ k \notin P!Inserted(q)
      BY <2>4, <2>6, <2>14, <3>3
    <3> QED BY <3>1, <3>2, <3>3
  <2>15. ASSUME NEW k \in stored' PROVE emitted'[k] > 0
    <3>0. k \in Keys /\ emitted[k] \in Nat
      BY <2>13 DEF PollerInv
    <3>1. CASE k \in stored
      <4>1. emitted[k] > 0
        BY <3>1 DEF PollerInv
      <4> QED BY <2>10, <3>0, <4>1
    <3>2. CASE k \in P!Inserted(q)
      BY <2>10, <3>0, <3>2
    <3> QED BY <2>4, <3>1, <3>2
  <2>16. ASSUME NEW k \in P!SeenSet' PROVE emitted'[k] > 0 \/ k \in seeded'
    <3>1. k \in Items(seen') /\ k \in Keys
      BY <2>7, <2>9, ItemsAre
    <3>2. CASE k \in P!SeenSet
      <4>1. emitted[k] > 0 \/ k \in seeded
        BY <3>2 DEF PollerInv, P!SeenWasEmitted
      <4>2. emitted[k] \in Nat
        BY <3>1 DEF PollerInv
      <4>3. CASE emitted[k] > 0
        BY <2>10, <3>1, <4>2, <4>3
      <4>4. CASE k \in seeded
        BY <2>4, <4>4
      <4> QED BY <4>1, <4>3, <4>4
    <3>3. CASE k \notin P!SeenSet
      <4>1. k \in P!Fresh(q)
        BY <2>5, <2>7, <3>1, <3>3
      <4> QED BY <2>14, <3>1, <4>1
    <3> QED BY <3>2, <3>3
  <2> QED BY <2>7, <2>10, <2>11, <2>12, <2>13, <2>15, <2>16 DEF PollerInv, P!SeenWasEmitted
<1>3. CASE P!Start \/ P!Poll \/ P!PollFails \/ P!Stop \/ P!Crash \/ UNCHANGED P!vars
           \/ \E k \in Keys : P!Purge(k)
  <2>1. Quiet
    BY <1>3 DEF P!Start, P!Poll, P!PollFails, P!Stop, P!Crash, P!Purge, P!Kept, P!vars
  <2> QED BY <1>1, <2>1
<1> QED BY <1>2, <1>3 DEF P!Next

LEMMA PollerInvHolds == ASSUME P!PollerAssumption PROVE P!Spec => []PollerInv
<1>1. P!Init => PollerInv
  <2> SUFFICES ASSUME P!Init PROVE PollerInv
    OBVIOUS
  <2>1. /\ seen = P!NoEntry /\ stored = {} /\ steady = {} /\ seeded = {}
        /\ emitted = [k \in Keys |-> 0]
    BY DEF P!Init
  <2>2. P!SeenSet = {}
    BY <2>1 DEF P!SeenSet
  <2> QED BY <2>1, <2>2 DEF PollerInv, P!SeenWasEmitted
<1>2. PollerInv /\ [P!Next]_(P!vars) => PollerInv'
  BY PollerStep
<1> QED BY <1>1, <1>2, PTL DEF P!Spec

\* The seen list never swallows an item: each key in it was emitted, or skipped by the first
\* run, through failed polls, rollbacks and crashes, for lists of any length (poller.ts, 311-313).
THEOREM PollerSeenWasEmitted == ASSUME P!PollerAssumption PROVE P!Spec => []P!SeenWasEmitted
<1>1. PollerInv => P!SeenWasEmitted
  BY DEF PollerInv
<1> QED BY <1>1, PollerInvHolds, PTL

\* An item the op keeps returning is emitted once, however long the result and the seen list,
\* in whatever order its items come, and whether or not its event was purged (351-358).
THEOREM PollerSteadyEmittedOnce ==
  ASSUME P!PollerAssumption PROVE P!Spec => P!SteadyItemEmittedOnce
<1>1. PollerInv /\ [P!Next]_(P!vars) => [P!SteadyItemQuiet]_(P!vars)
  BY PollerStep
<1> QED BY <1>1, PollerInvHolds, PTL DEF P!Spec, P!SteadyItemEmittedOnce

-----------------------------------------------------------------------------
(***************************************************************************)
(* Daemon: whose file the socket is                                        *)
(***************************************************************************)
\* No two daemons bind or close at the same moment: what MayAct keeps.
OneActs ==
  \A d, e \in Daemons :
    phase[d] \in D!Binding \cup D!Closing /\ phase[e] \in D!Binding \cup D!Closing => d = e

\* Whoever accepts is the one whose file it is, in the phases between binding and closing;
\* nobody does while a stale file is removed or a closing daemon's is removed once more.
FileIsAccepted ==
  /\ accepts \subseteq {file}
  /\ \A d \in Daemons :
       /\ phase[d] \in {"bound", "up", "stopping", "closing"} => d \in accepts
       /\ d \in accepts => phase[d] \in {"bound", "up", "unwind", "stopping", "closing"}
       /\ phase[d] \in {"clear", "unlink"} => accepts = {}

\* The core runs only between its start and its stop.
CoreIsStopped ==
  \A d \in Daemons : phase[d] \in {"off", "starting", "gone", "failed", "killed"} => d \notin core

DaemonInv ==
  /\ D!TypeOK
  /\ OneActs
  /\ FileIsAccepted
  /\ CoreIsStopped
  /\ refused \subseteq rival
  /\ D!HupNotLost

LEMMA DaemonInvStarts == D!DaemonAssumption /\ D!Init => DaemonInv
BY DEF D!Init, D!DaemonAssumption, DaemonInv, D!TypeOK, OneActs, FileIsAccepted, CoreIsStopped,
       D!HupNotLost, D!Binding, D!Closing

\* A step of one daemon.
DaemonActs(d) ==
  \/ D!Start(d) \/ D!CoreStart(d) \/ D!Bind(d) \/ D!Probe(d) \/ D!ClearStale(d) \/ D!Up(d)
  \/ D!Sighup(d) \/ D!Stop(d) \/ D!CloseApi(d) \/ D!CloseServer(d) \/ D!Unlink(d)
  \/ D!CoreStop(d) \/ D!Kill(d)

LEMMA DaemonInvStays == D!DaemonAssumption /\ DaemonInv /\ [D!Next]_D!vars => DaemonInv'
<1> SUFFICES ASSUME D!DaemonAssumption, DaemonInv, [D!Next]_D!vars PROVE DaemonInv'
  OBVIOUS
<1> USE DEF D!DaemonAssumption, DaemonInv, D!TypeOK, OneActs, FileIsAccepted, CoreIsStopped,
            D!HupNotLost, D!Binding, D!Closing, D!Goes, D!Nobody
<1>1. CASE UNCHANGED D!vars
  BY <1>1 DEF D!vars
<1>2. ASSUME NEW d \in Daemons, D!Start(d) PROVE DaemonInv'
  BY <1>2 DEF D!Start
<1>3. ASSUME NEW d \in Daemons, D!CoreStart(d) PROVE DaemonInv'
  BY <1>3 DEF D!CoreStart
<1>4. ASSUME NEW d \in Daemons, D!Bind(d) PROVE DaemonInv'
  BY <1>4 DEF D!Bind, D!Bound, D!MayAct
<1>5. ASSUME NEW d \in Daemons, D!Probe(d) PROVE DaemonInv'
  BY <1>5 DEF D!Probe, D!Answers, D!InUse
<1>6. ASSUME NEW d \in Daemons, D!ClearStale(d) PROVE DaemonInv'
  BY <1>6 DEF D!ClearStale
<1>7. ASSUME NEW d \in Daemons, D!Up(d) PROVE DaemonInv'
  BY <1>7 DEF D!Up, D!Replay, D!Replayed
<1>8. ASSUME NEW d \in Daemons, D!Sighup(d) PROVE DaemonInv'
  BY <1>8 DEF D!Sighup
<1>9. ASSUME NEW d \in Daemons, D!Stop(d) PROVE DaemonInv'
  BY <1>9 DEF D!Stop
<1>10. ASSUME NEW d \in Daemons, D!CloseApi(d) PROVE DaemonInv'
  BY <1>10 DEF D!CloseApi, D!Closes, D!HasClosing, D!MayAct
<1>11. ASSUME NEW d \in Daemons, D!CloseServer(d) PROVE DaemonInv'
  BY <1>11 DEF D!CloseServer
<1>12. ASSUME NEW d \in Daemons, D!Unlink(d) PROVE DaemonInv'
  BY <1>12 DEF D!Unlink
<1>13. ASSUME NEW d \in Daemons, D!CoreStop(d) PROVE DaemonInv'
  BY <1>13 DEF D!CoreStop
<1>14. ASSUME NEW d \in Daemons, D!Kill(d) PROVE DaemonInv'
  BY <1>14 DEF D!Kill
<1>15. ASSUME NEW d \in Daemons, DaemonActs(d) PROVE DaemonInv'
  BY <1>15, <1>2, <1>3, <1>4, <1>5, <1>6, <1>7, <1>8, <1>9, <1>10, <1>11, <1>12, <1>13, <1>14
  DEF DaemonActs
<1> QED BY <1>1, <1>15 DEF D!Next, DaemonActs

LEMMA DaemonInvHolds == ASSUME D!DaemonAssumption PROVE D!Spec => []DaemonInv
<1>1. D!Init => DaemonInv
  BY DaemonInvStarts
<1>2. DaemonInv /\ [D!Next]_D!vars => DaemonInv'
  BY DaemonInvStays
<1> QED BY <1>1, <1>2, PTL DEF D!Spec

\* The variables keep their types.
THEOREM DaemonTypeCorrect == ASSUME D!DaemonAssumption PROVE D!Spec => []D!TypeOK
<1>1. DaemonInv => D!TypeOK
  BY DEF DaemonInv
<1> QED BY DaemonInvHolds, <1>1, PTL

\* ApiServer.listen and close: a daemon that is up accepts on the socket and the file is its
\* own, whatever starts, fails to start, stops or is killed beside it; and a start is refused
\* only for a daemon that was there.
THEOREM DaemonSocketIsKept == ASSUME D!DaemonAssumption PROVE D!Spec => []D!SocketIsKept
<1>1. DaemonInv => D!SocketIsKept
  BY DEF DaemonInv, FileIsAccepted, D!SocketIsKept
<1> QED BY DaemonInvHolds, <1>1, PTL

\* startDaemon: a start that failed and a stop leave neither a core nor a server running.
THEOREM DaemonNothingLeftOpen == ASSUME D!DaemonAssumption PROVE D!Spec => []D!NothingLeftOpen
<1>1. DaemonInv => D!NothingLeftOpen
  BY DEF DaemonInv, FileIsAccepted, CoreIsStopped, D!NothingLeftOpen
<1> QED BY DaemonInvHolds, <1>1, PTL

\* reload-signal.ts: no SIGHUP that came during the start is left over once the daemon is up.
THEOREM DaemonHupNotLost == ASSUME D!DaemonAssumption PROVE D!Spec => []D!HupNotLost
<1>1. DaemonInv => D!HupNotLost
  BY DEF DaemonInv
<1> QED BY DaemonInvHolds, <1>1, PTL

-----------------------------------------------------------------------------
(***************************************************************************)
(* Backup: the destination and the copies                                  *)
(***************************************************************************)
\* A client is past its download only with the whole of the stream, past its sync only with
\* that on disk, and the connection is open only while it downloads.
ClientIsPast ==
  \A c \in Clients :
    /\ line[c] = "open" => at[c] = "download"
    /\ at[c] = "written" => partial[c] = U!Cached
    /\ at[c] \in {"synced", "linked"} => partial[c] = U!Kept
    /\ at[c] = "start" => partial[c] = "none" /\ handler[c] = "none"
    /\ at[c] \in {"done", "refused"} => partial[c] = "none" \/ <<"partial", c>> \in stuck
    /\ at[c] = "linked" => c \notin Forced

\* The destination: whole and on disk when there is one, and a client's from the first that
\* placed it on, until the power goes.
DestIsPlaced ==
  /\ \A d \in older \union {dest} : d.by # U!Nobody => d.data = U!Kept
  /\ lost \/ \A c \in Clients : at[c] \in {"linked", "done"} => dest.by \in Clients
  /\ lost => \A c \in Clients : at[c] \in {"start", "done", "refused", "killed"}
  /\ \A c, d \in Clients \ Forced :
       at[c] \in {"linked", "done"} /\ at[d] \in {"linked", "done"} => c = d

CopyIsRemoved == \A c \in Clients :
  /\ handler[c] \in {"none", "asked"} => c \notin copy
  /\ handler[c] = "over" => c \notin copy \/ <<"copy", c>> \in stuck

BackupInv ==
  /\ U!TypeOK
  /\ ClientIsPast
  /\ DestIsPlaced
  /\ CopyIsRemoved

LEMMA BackupInvStarts == U!BackupAssumption /\ U!Init => BackupInv
<1> SUFFICES ASSUME U!BackupAssumption, U!Init PROVE BackupInv
  OBVIOUS
<1> USE DEF U!Init, U!BackupAssumption, U!Nobody, U!Before, U!Short, U!Cached, U!Kept, U!Data
<1>1. partial \in [Clients -> U!Data]
  OBVIOUS
<1>2. dest \in U!Dests
  BY DEF U!Dests
<1>3. U!TypeOK
  BY <1>1, <1>2 DEF U!TypeOK
<1>4. ClientIsPast
  BY DEF ClientIsPast
<1>5. DestIsPlaced
  BY DEF DestIsPlaced
<1>6. CopyIsRemoved
  BY DEF CopyIsRemoved
<1> QED BY <1>3, <1>4, <1>5, <1>6 DEF BackupInv

\* Once the power is gone no client runs.
LEMMA LostStops ==
  ASSUME BackupInv, NEW c \in Clients, at[c] \notin {"start", "done", "refused", "killed"}
  PROVE  ~lost
BY DEF BackupInv, DestIsPlaced

LEMMA BackupInvStays ==
  ASSUME U!BackupAssumption, BackupInv, [U!Next]_U!vars
  PROVE  BackupInv'
<1>15. \A c \in Clients : at[c] \notin {"start", "done", "refused", "killed"} => ~lost
  BY LostStops
<1> USE DEF U!BackupAssumption, BackupInv, U!TypeOK, ClientIsPast, DestIsPlaced, CopyIsRemoved,
            U!Nobody, U!Before, U!Short, U!Cached, U!Kept, U!Data, U!Dests
<1>1. CASE UNCHANGED U!vars
  BY <1>1 DEF U!vars
<1>2. ASSUME NEW c \in Clients, U!Start(c) PROVE BackupInv'
  <2>1. CASE at' = [at EXCEPT ![c] = "refused"] /\ UNCHANGED <<handler, line, partial>>
    BY <1>2, <2>1 DEF U!Start
  <2>2. ASSUME partial' = [partial EXCEPT ![c] = U!Short], daemon = "up",
               at' = [at EXCEPT ![c] = "download"], line' = [line EXCEPT ![c] = "open"],
               handler' = [handler EXCEPT ![c] = "asked"]
        PROVE  BackupInv'
    <3>1. handler' \in [Clients -> {"none", "asked", "copying", "copied", "streaming", "over"}]
      BY <2>2
    <3>2. /\ line' \in [Clients -> {"none", "open", "sent", "failed"}]
          /\ at' \in [Clients -> {"start", "download", "written", "synced", "linked", "failing",
                                  "done", "refused", "killed"}]
          /\ partial' \in [Clients -> U!Data]
      BY <2>2
    <3>3. ~lost /\ UNCHANGED <<daemon, copy, dest, lost, older, stuck>>
      BY <1>2 DEF U!Start
    <3>4. U!TypeOK'
      BY <3>1, <3>2, <3>3
    <3>5. ClientIsPast'
      BY <2>2, <3>3
    <3>6. CopyIsRemoved'
      <4>1. c \notin copy
        BY <1>2 DEF U!Start
      <4> QED BY <2>2, <3>3, <4>1
    <3>7. /\ \A d \in older' \union {dest'} : d.by # U!Nobody => d.data = U!Kept
          /\ \A d \in Clients : at'[d] \in {"linked", "done"} => dest'.by \in Clients
          /\ \A d, e \in Clients \ Forced :
               at'[d] \in {"linked", "done"} /\ at'[e] \in {"linked", "done"} => d = e
      BY <2>2, <3>3
    <3>8. lost' = FALSE
      BY <3>3
    <3> QED BY <3>4, <3>5, <3>6, <3>7, <3>8
  <2>3. ASSUME partial' = [partial EXCEPT ![c] = U!Short], U!Fails(c), UNCHANGED <<handler, line>>
        PROVE  BackupInv'
    BY <1>2, <2>3 DEF U!Start, U!Fails
  <2> QED BY <1>2, <2>1, <2>2, <2>3 DEF U!Start
<1>3. ASSUME NEW c \in Clients, U!Downloaded(c) PROVE BackupInv'
  BY <1>3 DEF U!Downloaded, U!Complete, U!Accepts, U!Fails
<1>4. ASSUME NEW c \in Clients, U!Sync(c) PROVE BackupInv'
  BY <1>4 DEF U!Sync, U!Flushed, U!OnDisk, U!Fails
<1>5. ASSUME NEW c \in Clients, U!Place(c) PROVE BackupInv'
  <2>1. U!TypeOK'
    BY <1>5 DEF U!Place, U!Takes, U!MayTake, U!Fails
  <2>2. ClientIsPast' /\ CopyIsRemoved'
    BY <1>5 DEF U!Place, U!Takes, U!MayTake, U!Fails
  <2>3. ~lost
    <3>1. at[c] \notin {"start", "done", "refused", "killed"}
      BY <1>5 DEF U!Place
    <3> QED BY <1>15, <3>1
  <2>4. \A d \in older' \union {dest'} : d.by # U!Nobody => d.data = U!Kept
    <3>1. CASE UNCHANGED <<dest, older>>
      BY <3>1
    <3>2. CASE dest' = [by |-> c, data |-> partial[c]] /\ older' = older \union {dest}
      <4>1. dest'.data = U!Kept
        BY <1>5, <3>2 DEF U!Place
      <4> QED BY <3>2, <4>1
    <3> QED BY <1>5, <3>1, <3>2 DEF U!Place
  <2>5. \A d \in Clients : at'[d] \in {"linked", "done"} => dest'.by \in Clients
    BY <1>5, <2>3 DEF U!Place, U!Takes, U!MayTake, U!Fails
  <2>6. \A d, e \in Clients \ Forced :
          at'[d] \in {"linked", "done"} /\ at'[e] \in {"linked", "done"} => d = e
    BY <1>5, <2>3 DEF U!Place, U!Takes, U!MayTake, U!Fails
  <2>7. lost' = FALSE
    BY <1>5, <2>3 DEF U!Place
  <2> QED BY <2>1, <2>2, <2>4, <2>5, <2>6, <2>7
<1>6. ASSUME NEW c \in Clients, U!RemovePartial(c) PROVE BackupInv'
  BY <1>6 DEF U!RemovePartial
<1>7. ASSUME NEW c \in Clients, U!KillClient(c) PROVE BackupInv'
  BY <1>7 DEF U!KillClient
<1>8. ASSUME NEW c \in Clients, U!Copy(c) PROVE BackupInv'
  BY <1>8 DEF U!Copy, U!Over
<1>14. ASSUME NEW c \in Clients, U!Creates(c) PROVE BackupInv'
  BY <1>14 DEF U!Creates
<1>9. ASSUME NEW c \in Clients, U!SendFile(c) PROVE BackupInv'
  BY <1>9 DEF U!SendFile, U!Ends, U!Over
<1>10. ASSUME NEW c \in Clients, U!Stream(c) PROVE BackupInv'
  BY <1>10 DEF U!Stream, U!Ends, U!Over
<1>11. ASSUME NEW c \in Clients, U!Break(c) PROVE BackupInv'
  BY <1>11 DEF U!Break
<1>12. CASE U!KillDaemon
  BY <1>12 DEF U!KillDaemon
<1>13. CASE U!PowerLoss
  BY <1>13 DEF U!PowerLoss, U!AfterLoss
<1> QED BY <1>1, <1>2, <1>3, <1>4, <1>5, <1>6, <1>7, <1>8, <1>9, <1>10, <1>11, <1>12, <1>13,
       <1>14
    DEF U!Next

LEMMA BackupInvHolds == ASSUME U!BackupAssumption PROVE U!Spec => []BackupInv
<1>1. U!Init => BackupInv
  BY BackupInvStarts
<1>2. BackupInv /\ [U!Next]_U!vars => BackupInv'
  BY BackupInvStays
<1> QED BY <1>1, <1>2, PTL DEF U!Spec

\* The variables keep their types.
THEOREM BackupTypeCorrect == ASSUME U!BackupAssumption PROVE U!Spec => []U!TypeOK
<1>1. BackupInv => U!TypeOK
  BY DEF BackupInv
<1> QED BY BackupInvHolds, <1>1, PTL

\* ApiClient.backup: whatever breaks, the destination is a whole copy or what it was before,
\* and of the runs without --force at most one places its copy.
THEOREM BackupDestIsWhole == ASSUME U!BackupAssumption PROVE U!Spec => []U!DestIsWhole
<1>1. BackupInv => U!DestIsWhole
  BY DEF BackupInv, DestIsPlaced, U!DestIsWhole
<1> QED BY BackupInvHolds, <1>1, PTL

\* ApiServer and ApiClient.backup: the daemon's copy is gone once the request is over, the
\* client's hidden file once it has answered.
THEOREM BackupNoCopyLeft == ASSUME U!BackupAssumption PROVE U!Spec => []U!NoCopyLeft
<1>1. BackupInv => U!NoCopyLeft
  BY DEF BackupInv, ClientIsPast, CopyIsRemoved, U!NoCopyLeft
<1> QED BY BackupInvHolds, <1>1, PTL

-----------------------------------------------------------------------------
(***************************************************************************)
(* Upgrade: the way back                                                   *)
(***************************************************************************)
\* The way back holds because nothing is removed before the new copy is on disk, and the
\* migration starts only when what it would replace is that copy.
UpgradeInv ==
  /\ V!TypeOK
  /\ V!WayBack
  /\ step \in {"synced", "tidied"} => copies[schema] = V!Kept
  /\ step = "tidied" => back = schema

LEMMA UpgradeInvStarts == V!Init => UpgradeInv
BY DEF V!Init, UpgradeInv, V!TypeOK, V!WayBack, V!Schemas, V!None, V!Torn, V!Cached, V!Kept

LEMMA UpgradeInvStays == UpgradeInv /\ [V!Next]_V!vars => UpgradeInv'
<1> SUFFICES ASSUME UpgradeInv, [V!Next]_V!vars PROVE UpgradeInv'
  OBVIOUS
<1> USE DEF UpgradeInv, V!TypeOK, V!WayBack
<1>1. CASE V!Start
  BY <1>1 DEF V!Start
<1>2. CASE V!Open
  BY <1>2 DEF V!Open
<1>3. CASE V!Clear
  BY <1>3 DEF V!Clear, V!Set, V!None, V!Torn, V!Cached, V!Kept
<1>4. CASE V!Create
  BY <1>4 DEF V!Create, V!Set, V!None, V!Torn, V!Cached, V!Kept
<1>5. CASE V!CopyInto
  BY <1>5 DEF V!CopyInto, V!Set, V!None, V!Torn, V!Cached, V!Kept
<1>6. CASE V!Sync
  BY <1>6 DEF V!Sync, V!Set, V!None, V!Torn, V!Cached, V!Kept
<1>7. CASE V!CopyFails
  BY <1>7 DEF V!CopyFails, V!Set, V!None, V!Torn, V!Cached, V!Kept
\* The new copy is kept and becomes the way back before any older one is removed.
<1>8. CASE V!Tidy
  <2>1. step = "synced" /\ copies[schema] = V!Kept /\ back' = schema
    BY <1>8 DEF V!Tidy, V!Tidies, V!MayTidy
  <2>2. copies' \in [V!Schemas -> {V!None, V!Torn, V!Cached, V!Kept}] /\ copies'[schema] = V!Kept
    BY <1>8, <2>1 DEF V!Tidy
  <2> QED BY <1>8, <2>1, <2>2 DEF V!Tidy
<1>9. CASE V!Migrate
  BY <1>9 DEF V!Migrate, V!MayMigrate, V!Ready
<1>10. CASE V!Stop
  BY <1>10 DEF V!Stop
\* What is on disk stays, and the database falls back at most to the last migration.
<1>11. CASE V!PowerLoss
  <2>1. /\ copies' \in [V!Schemas -> {V!None, V!Torn, V!Cached, V!Kept}]
        /\ copies[back] = V!Kept => copies'[back] = V!Kept
    BY <1>11 DEF V!PowerLoss, V!None, V!Torn, V!Cached, V!Kept
  <2> QED BY <1>11, <2>1 DEF V!PowerLoss
<1>12. CASE UNCHANGED V!vars
  BY <1>12 DEF V!vars
<1> QED BY <1>1, <1>2, <1>3, <1>4, <1>5, <1>6, <1>7, <1>8, <1>9, <1>10, <1>11, <1>12 DEF V!Next

\* The variables keep their types: step, schema, copies and back.
THEOREM UpgradeTypeCorrect == V!Spec => []V!TypeOK
<1>1. UpgradeInv => V!TypeOK
  BY DEF UpgradeInv
<1> QED BY UpgradeInvStarts, UpgradeInvStays, <1>1, PTL DEF V!Spec

\* copyBeforeMigration: at every step of every upgrade, killed or cut off or not, the database
\* is what the last migration left, or a copy of that is whole and on disk.
THEOREM UpgradeWayBack == V!Spec => []V!WayBack
<1>1. UpgradeInv => V!WayBack
  BY DEF UpgradeInv
<1> QED BY UpgradeInvStarts, UpgradeInvStays, <1>1, PTL DEF V!Spec
=============================================================================
