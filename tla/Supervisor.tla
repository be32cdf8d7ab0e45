----------------------------- MODULE Supervisor -----------------------------
(***************************************************************************)
(* The connector supervisor (packages/core/src/connectors/supervisor.ts):  *)
(* it spawns the process of each configured connector, brings a crashed or *)
(* unhealthy one back after a backoff, and kills and replaces it on an     *)
(* operator's restart, on a reload that changes or removes its manifest,   *)
(* and at the stop of the daemon.                                          *)
(*                                                                         *)
(* Connectors share nothing but "stopping", so this is the life of one     *)
(* connector name.  A reload replaces its Managed entry; entries and       *)
(* spawns are numbered slots, reused once nothing refers to them.  A spawn *)
(* and the process it begins have the same number.                         *)
(*                                                                         *)
(* kill() and spawn() await: what a caller does after its await is a step  *)
(* of its own (GoesOn), which runs before the thread takes another       *)
(* callback.  The time a backoff lasts and the restarts counter that sets  *)
(* it are left out: a restart timer may fire at any time.                  *)
(***************************************************************************)
EXTENDS Naturals, FiniteSets

CONSTANTS
  Entries,               \* slots for Managed entries
  Spawns,                \* bound: slots for spawns and the processes they begin
  Kinds,                 \* launcherKind of the manifests a reload may bring
  RestartWhileReplacing  \* whether a restart may come while apply() kills the replaced entry

ASSUME SupervisorAssumption ==
  /\ Entries \subseteq Nat \ {0} /\ Spawns \subseteq Nat \ {0}
  /\ IsFiniteSet(Entries) /\ IsFiniteSet(Spawns) /\ Entries # {} /\ Spawns # {}
  /\ Kinds \subseteq {"process", "external"} /\ Kinds # {}
  /\ RestartWhileReplacing \in BOOLEAN

VARIABLES
  mode,            \* where start() and stop() are
  current,         \* the entry "managed" holds for the name; 0 when it holds none
  kind,            \* launcherKind of an entry's manifest
  state,           \* Managed.state
  launched,        \* Managed.launched: the spawn whose process is attached, or 0
  starting,        \* Managed.starting: the last spawn in flight, or 0
  restartTimer,    \* entries with a restart pending
  healthTimer,     \* Managed.healthTimer: the spawn whose next check it can cancel, or 0
  \* Per spawn:
  owner,           \* the entry it was made for
  at,              \* the await spawnOnce() stands at
  proc,            \* its process
  aborted,         \* spawns whose signal was aborted
  stale,           \* spawns begun at an older epoch of their entry
  armed,           \* spawns a health timer is pending for
  checking,        \* spawns a ping is out to
  \* Callers:
  kills,           \* the kill() each caller awaits
  awaits           \* the spawn a restart or a reload awaits, or 0

entryVars == <<current, kind, state, launched, starting, restartTimer, healthTimer>>
spawnVars == <<owner, at, proc, aborted, stale, armed, checking>>
vars == <<mode, entryVars, spawnVars, kills, awaits>>

\* Who calls kill(): restartOnce(), apply(), stop(), or the health check of a process.
By(c) == [by |-> c, of |-> 0]
Health(s) == [by |-> "health", of |-> s]
Callers == {By(c) : c \in {"restart", "apply", "stop"}} \cup {Health(s) : s \in Spawns}

\* A kill waits for the spawn it aborted, then for the process it stops.  "stale": the
\* entry was killed again since.  "next": the entry apply() spawns afterwards.
Kill == [entry : Entries \cup {0}, start : Spawns \cup {0}, stops : Spawns \cup {0},
         next : Entries \cup {0}, stale : BOOLEAN]
NoKill == [entry |-> 0, start |-> 0, stops |-> 0, next |-> 0, stale |-> FALSE]

InFlight(s) == at[s] # "idle"
Killing(e) == \E k \in Callers : kills[k].entry = e

\* Nothing refers to the slot any more.
FreeEntries ==
  {e \in Entries : /\ e # current /\ ~Killing(e) /\ e \notin restartTimer
                   /\ \A k \in Callers : kills[k].next # e
                   /\ \A s \in Spawns : owner[s] = e =>
                        ~InFlight(s) /\ proc[s] = "none" /\ s \notin armed \cup checking}
FreeSpawns ==
  {s \in Spawns : /\ ~InFlight(s) /\ proc[s] = "none" /\ s \notin armed \cup checking
                  /\ kills[Health(s)] = NoKill
                  /\ \A k \in Callers : kills[k].start # s}
First(S) == CHOOSE x \in S : \A y \in S : x <= y

-----------------------------------------------------------------------------
(***************************************************************************)
(* spawn() and kill()                                                      *)
(***************************************************************************)

\* Mutant: the epoch is not compared.
WantedAtAnyEpoch(s) == mode = "serving" /\ owner[s] = current

\* stillWanted(): not stopping, not killed since, not replaced.
Wanted(s) == mode = "serving" /\ s \notin stale /\ owner[s] = current

\* spawnOnce() up to its await.  A launcher may have a proxy to open before the process.
Launch(e, kd) ==
  IF kd = "external"
  THEN /\ state' = [state EXCEPT ![e] = "external"]
       /\ UNCHANGED <<starting, owner, at, proc>>
  ELSE LET s == First(FreeSpawns) IN
       /\ state' = [state EXCEPT ![e] = "starting"]
       /\ starting' = [starting EXCEPT ![e] = s]
       /\ owner' = [owner EXCEPT ![s] = e]
       /\ \/ /\ at' = [at EXCEPT ![s] = "opening"]
             /\ UNCHANGED proc
          \/ /\ at' = [at EXCEPT ![s] = "launching"]
             /\ proc' = [proc EXCEPT ![s] = "live"]

NoLaunch == UNCHANGED <<state, starting, owner, at, proc>>

\* The spawn in flight a caller of Launch then awaits.
Launching(kd) == IF kd = "external" THEN 0 ELSE First(FreeSpawns)

\* spawn(): nothing starts while stopping, or for an entry a reload replaced.
MaySpawn(e) == mode = "serving" /\ current = e

\* stop() of a Launched, if there is one: the process is told to go.
Signal(s) == proc' = IF s # 0 THEN [proc EXCEPT ![s] = "stopping"] ELSE proc

\* Mutant: a spawn in flight is aborted but not waited for.
BeginKillWithoutWaiting(k, e, next) ==
  /\ stale' = stale \cup {s \in Spawns : owner[s] = e /\ InFlight(s)}
  /\ restartTimer' = restartTimer \ {e}
  /\ armed' = armed \ {healthTimer[e]}
  /\ healthTimer' = [healthTimer EXCEPT ![e] = 0]
  /\ state' = [state EXCEPT ![e] = "stopped"]
  /\ launched' = [launched EXCEPT ![e] = 0]
  /\ aborted' = aborted \cup ({starting[e]} \ {0})
  /\ Signal(launched[e])
  /\ kills' = [c \in Callers |->
       IF c = k THEN [entry |-> e, start |-> 0, stops |-> launched[e], next |-> next,
                      stale |-> FALSE]
       ELSE IF kills[c].entry = e THEN [kills[c] EXCEPT !.stale = TRUE] ELSE kills[c]]

\* kill() up to its first await: a new epoch, no timer left, the spawn in flight aborted
\* or else the attached process told to go.
BeginKill(k, e, next) ==
  /\ stale' = stale \cup {s \in Spawns : owner[s] = e /\ InFlight(s)}
  /\ restartTimer' = restartTimer \ {e}
  /\ armed' = armed \ {healthTimer[e]}
  /\ healthTimer' = [healthTimer EXCEPT ![e] = 0]
  /\ state' = [state EXCEPT ![e] = "stopped"]
  /\ launched' = [launched EXCEPT ![e] = 0]
  /\ aborted' = aborted \cup ({starting[e]} \ {0})
  /\ IF starting[e] = 0 THEN Signal(launched[e]) ELSE UNCHANGED proc
  /\ kills' = [c \in Callers |->
       IF c = k THEN [entry |-> e, start |-> starting[e], stops |-> launched[e], next |-> next,
                      stale |-> FALSE]
       ELSE IF kills[c].entry = e THEN [kills[c] EXCEPT !.stale = TRUE] ELSE kills[c]]

\* The spawn a kill awaits has settled.
SpawnSettled(k) == kills[k].start # 0 /\ ~InFlight(kills[k].start)

\* The kill is through: its caller goes on.
Killed(k) == kills[k].entry # 0 /\ kills[k].start = 0 /\ kills[k].stops = 0

\* There is a slot for what it may spawn then.
HasSlot(k) == k \in {By("restart"), By("apply")} => FreeSpawns # {}

\* No continuation is due, so the thread takes another callback.
Quiet == \A k \in Callers : ~SpawnSettled(k) /\ ~(Killed(k) /\ HasSlot(k))

\* exited(): down until the restart timer fires.
Exited(e) ==
  IF mode # "serving"
  THEN state' = [state EXCEPT ![e] = "stopped"] /\ UNCHANGED restartTimer
  ELSE state' = [state EXCEPT ![e] = "down"] /\ restartTimer' = restartTimer \cup {e}

-----------------------------------------------------------------------------
(***************************************************************************)
(* A spawn in flight                                                       *)
(***************************************************************************)

\* spawnOnce() returns: its spawn is no longer the one in flight, and who awaited it goes on.
Settle(s) ==
  /\ at' = [at EXCEPT ![s] = "idle"]
  /\ starting' = [e \in Entries |-> IF starting[e] = s THEN 0 ELSE starting[e]]
  /\ awaits' = [c \in DOMAIN awaits |-> IF awaits[c] = s THEN 0 ELSE awaits[c]]
  /\ aborted' = aborted \ {s} /\ stale' = stale \ {s}

\* Mutant: failed() schedules no restart.
SettleFailedForGood(s) ==
  /\ Settle(s)
  /\ IF Wanted(s) THEN state' = [state EXCEPT ![owner[s]] = "down"] ELSE UNCHANGED state
  /\ UNCHANGED restartTimer

\* failed(), unless nobody wants the spawn any more.
SettleFailed(s) ==
  /\ Settle(s)
  /\ IF Wanted(s)
     THEN /\ state' = [state EXCEPT ![owner[s]] = "down"]
          /\ restartTimer' = restartTimer \cup {owner[s]}
     ELSE UNCHANGED <<state, restartTimer>>

\* Mutant: a launch nobody wants any more is left hanging.
OpenWhenWanted(s) ==
  /\ Quiet /\ at[s] = "opening" /\ Wanted(s)
  /\ at' = [at EXCEPT ![s] = "launching"]
  /\ proc' = [proc EXCEPT ![s] = "live"]
  /\ UNCHANGED <<mode, entryVars, owner, aborted, stale, armed, checking, kills, awaits>>

\* The proxy is open: the process begins, if it is still wanted.
Open(s) ==
  /\ Quiet /\ at[s] = "opening"
  /\ \/ /\ Wanted(s)
        /\ at' = [at EXCEPT ![s] = "launching"]
        /\ proc' = [proc EXCEPT ![s] = "live"]
        /\ UNCHANGED <<starting, awaits, aborted, stale>>
     \/ ~Wanted(s) /\ Settle(s) /\ UNCHANGED proc
  /\ UNCHANGED <<mode, current, kind, state, launched, restartTimer, healthTimer, owner, armed,
                 checking, kills>>

\* The proxy, or the environment with its secrets, cannot be made.
OpenFails(s) ==
  /\ Quiet /\ at[s] = "opening"
  /\ SettleFailed(s)
  /\ UNCHANGED <<mode, current, kind, launched, healthTimer, owner, proc, armed, checking, kills>>

\* The launcher closes its process: it was aborted, or the handshake failed or timed out.
GiveUp(s) ==
  /\ Quiet /\ at[s] = "launching" /\ proc[s] = "live"
  /\ proc' = [proc EXCEPT ![s] = "stopping"]
  /\ UNCHANGED <<mode, entryVars, owner, at, aborted, stale, armed, checking, kills, awaits>>

\* ... and rejects: an aborted one once the process has gone.
LaunchFails(s) ==
  /\ Quiet /\ at[s] = "launching" /\ proc[s] # "live"
  /\ s \in aborted => proc[s] = "none"
  /\ SettleFailed(s)
  /\ UNCHANGED <<mode, current, kind, launched, healthTimer, owner, proc, armed, checking, kills>>

\* The process answers (an abort may come too late) and is attached: the connector is up.
Attach(s) ==
  /\ Quiet /\ at[s] = "launching" /\ proc[s] = "live" /\ Wanted(s)
  /\ Settle(s)
  /\ launched' = [launched EXCEPT ![owner[s]] = s]
  /\ state' = [state EXCEPT ![owner[s]] = "up"]
  /\ armed' = armed \cup {s}
  /\ healthTimer' = [healthTimer EXCEPT ![owner[s]] = s]
  /\ UNCHANGED <<mode, current, kind, restartTimer, owner, proc, checking, kills>>

\* It was stopped, killed or replaced meanwhile: its process is stopped here.
Discard(s) ==
  /\ Quiet /\ at[s] = "launching" /\ proc[s] = "live" /\ ~Wanted(s)
  /\ at' = [at EXCEPT ![s] = "discarding"]
  /\ proc' = [proc EXCEPT ![s] = "stopping"]
  /\ UNCHANGED <<mode, entryVars, owner, aborted, stale, armed, checking, kills, awaits>>

Discarded(s) ==
  /\ Quiet /\ at[s] = "discarding" /\ proc[s] = "none"
  /\ Settle(s)
  /\ UNCHANGED <<mode, current, kind, state, launched, restartTimer, healthTimer, owner, proc,
                 armed, checking, kills>>

-----------------------------------------------------------------------------
(***************************************************************************)
(* A process, its exit, its health and its restart                         *)
(***************************************************************************)

\* The process is gone: told to, or by itself.  Only an attached one is a crash.
Exit(s) ==
  /\ Quiet /\ proc[s] # "none"
  /\ proc' = [proc EXCEPT ![s] = "none"]
  /\ IF launched[owner[s]] = s
     THEN /\ launched' = [launched EXCEPT ![owner[s]] = 0]
          /\ Exited(owner[s])
     ELSE UNCHANGED <<launched, state, restartTimer>>
  /\ kills' = [k \in Callers |->
       IF kills[k].stops = s THEN [kills[k] EXCEPT !.stops = 0] ELSE kills[k]]
  /\ UNCHANGED <<mode, current, kind, starting, healthTimer, owner, at, aborted, stale, armed,
                 checking, awaits>>

\* The backoff is over.
RestartDue(e) ==
  /\ Quiet /\ e \in restartTimer /\ FreeSpawns # {}
  /\ restartTimer' = restartTimer \ {e}
  /\ IF MaySpawn(e) THEN Launch(e, kind[e]) ELSE NoLaunch
  /\ UNCHANGED <<mode, current, kind, launched, healthTimer, aborted, stale, armed, checking,
                 kills, awaits>>

\* The health timer of a process fires, also one that is gone: a ping goes out.
HealthDue(s) ==
  /\ Quiet /\ s \in armed
  /\ armed' = armed \ {s} /\ checking' = checking \cup {s}
  /\ healthTimer' = [healthTimer EXCEPT ![owner[s]] = 0]
  /\ UNCHANGED <<mode, current, kind, state, launched, starting, restartTimer, owner, at, proc,
                 aborted, stale, kills, awaits>>

\* Mutant: the next check is scheduled whatever is attached by now.
CheckedAlways(s) ==
  /\ Quiet /\ s \in checking
  /\ checking' = checking \ {s}
  /\ armed' = armed \cup {launched[owner[s]]}
  /\ healthTimer' = [healthTimer EXCEPT ![owner[s]] = launched[owner[s]]]
  /\ UNCHANGED <<mode, current, kind, state, launched, starting, restartTimer, owner, at, proc,
                 aborted, stale, kills, awaits>>

\* The ping was answered, or missed with more misses allowed, and the next is scheduled;
\* nothing happens when the process has changed under the check.
Checked(s) ==
  /\ Quiet /\ s \in checking
  /\ checking' = checking \ {s}
  /\ IF launched[owner[s]] = s
     THEN /\ armed' = armed \cup {s}
          /\ healthTimer' = [healthTimer EXCEPT ![owner[s]] = s]
     ELSE UNCHANGED <<armed, healthTimer>>
  /\ UNCHANGED <<mode, current, kind, state, launched, starting, restartTimer, owner, at, proc,
                 aborted, stale, kills, awaits>>

\* The last miss allowed: the process is killed.
Condemn(s) ==
  /\ Quiet /\ s \in checking /\ launched[owner[s]] = s
  /\ checking' = checking \ {s}
  /\ BeginKill(Health(s), owner[s], 0)
  /\ UNCHANGED <<mode, current, kind, starting, owner, at, awaits>>

-----------------------------------------------------------------------------
(***************************************************************************)
(* start(), restart(), apply(), stop() and what they do after a kill       *)
(***************************************************************************)

Start ==
  /\ mode = "new" /\ mode' = "serving"
  /\ IF current = 0 THEN NoLaunch ELSE Launch(current, kind[current])
  /\ UNCHANGED <<current, kind, launched, restartTimer, healthTimer, aborted, stale, armed,
                 checking, kills, awaits>>

\* A restart, or the work of a reload, is not through.
Busy(c) == kills[By(c)] # NoKill \/ awaits[c] # 0

\* restart(): one that comes while another is in flight joins it.  The API refuses it for
\* an external connector.
Restart ==
  /\ Quiet /\ mode # "new" /\ current # 0 /\ kind[current] = "process"
  /\ ~Busy("restart")
  /\ RestartWhileReplacing \/ kills[By("apply")].next = 0
  /\ BeginKill(By("restart"), current, 0)
  /\ UNCHANGED <<mode, current, kind, starting, owner, at, checking, awaits>>

\* apply(), one reload at a time: the manifest is new ...
Add(kd) ==
  /\ Quiet /\ mode # "new" /\ ~Busy("apply") /\ current = 0
  /\ FreeEntries # {} /\ FreeSpawns # {}
  /\ LET e == First(FreeEntries) IN
       /\ current' = e
       /\ kind' = [kind EXCEPT ![e] = kd]
       /\ IF mode = "serving"
          THEN Launch(e, kd) /\ awaits' = [awaits EXCEPT !["apply"] = Launching(kd)]
          ELSE NoLaunch /\ UNCHANGED awaits
  /\ UNCHANGED <<mode, launched, restartTimer, healthTimer, aborted, stale, armed, checking, kills>>

\* ... or gone ...
Remove ==
  /\ Quiet /\ mode # "new" /\ ~Busy("apply") /\ current # 0
  /\ current' = 0
  /\ BeginKill(By("apply"), current, 0)
  /\ UNCHANGED <<mode, kind, starting, owner, at, checking, awaits>>

\* ... or changed: the old entry is killed, its replacement spawned after that.
Change(kd) ==
  /\ Quiet /\ mode # "new" /\ ~Busy("apply") /\ current # 0 /\ FreeEntries # {}
  /\ LET e == First(FreeEntries) IN
       /\ current' = e
       /\ kind' = [kind EXCEPT ![e] = kd]
       /\ BeginKill(By("apply"), current, e)
  /\ UNCHANGED <<mode, starting, owner, at, checking, awaits>>

\* stop(): from here on nothing is wanted.
Stop ==
  /\ Quiet /\ mode = "serving"
  /\ IF current = 0
     THEN /\ mode' = "stopped"
          /\ UNCHANGED <<state, launched, restartTimer, healthTimer, proc, aborted, stale, armed, kills>>
     ELSE /\ mode' = "stopping"
          /\ BeginKill(By("stop"), current, 0)
  /\ UNCHANGED <<current, kind, starting, owner, at, checking, awaits>>

-----------------------------------------------------------------------------
(***************************************************************************)
(* What goes on after an await of kill()                                   *)
(***************************************************************************)

\* The aborted spawn has settled: now the process that was attached is told to go.
KillGoesOn(k) ==
  /\ SpawnSettled(k)
  /\ kills' = [kills EXCEPT ![k].start = 0]
  /\ Signal(kills[k].stops)
  /\ UNCHANGED <<mode, entryVars, owner, at, aborted, stale, armed, checking, awaits>>

Ended(k) ==
  /\ Killed(k) /\ HasSlot(k)
  /\ kills' = [kills EXCEPT ![k] = NoKill]
  /\ UNCHANGED <<current, kind, launched, healthTimer, aborted, stale, armed, checking>>

\* What c spawns once its kill is through.
Respawn(c, e) ==
  /\ IF MaySpawn(e)
     THEN Launch(e, kind[e]) /\ awaits' = [awaits EXCEPT ![c] = Launching(kind[e])]
     ELSE NoLaunch /\ UNCHANGED awaits
  /\ UNCHANGED <<mode, restartTimer>>

RestartGoesOn == Ended(By("restart")) /\ Respawn("restart", kills[By("restart")].entry)

ApplyGoesOn ==
  /\ Ended(By("apply"))
  /\ \/ kills[By("apply")].next # 0 /\ Respawn("apply", kills[By("apply")].next)
     \/ kills[By("apply")].next = 0 /\ NoLaunch /\ UNCHANGED <<mode, awaits, restartTimer>>

StopGoesOn ==
  /\ Ended(By("stop"))
  /\ mode' = "stopped"
  /\ NoLaunch /\ UNCHANGED <<awaits, restartTimer>>

\* Mutant: the entry is taken down without a look at its epoch.
HealthGoesOnAtAnyEpoch(s) ==
  /\ Ended(Health(s))
  /\ IF current = kills[Health(s)].entry
     THEN Exited(kills[Health(s)].entry) ELSE UNCHANGED <<state, restartTimer>>
  /\ UNCHANGED <<mode, starting, owner, at, proc, awaits>>

\* The health check takes the connector for crashed, unless somebody else killed it too.
HealthGoesOn(s) ==
  /\ Ended(Health(s))
  /\ IF current = kills[Health(s)].entry /\ ~kills[Health(s)].stale
     THEN Exited(kills[Health(s)].entry) ELSE UNCHANGED <<state, restartTimer>>
  /\ UNCHANGED <<mode, starting, owner, at, proc, awaits>>

-----------------------------------------------------------------------------

Init ==
  /\ mode = "new"
  /\ current \in {0, First(Entries)}
  /\ kind \in {[e \in Entries |-> kd] : kd \in Kinds}
  /\ state = [e \in Entries |-> "stopped"]
  /\ launched = [e \in Entries |-> 0] /\ starting = [e \in Entries |-> 0]
  /\ restartTimer = {} /\ healthTimer = [e \in Entries |-> 0]
  /\ owner = [s \in Spawns |-> First(Entries)]
  /\ at = [s \in Spawns |-> "idle"] /\ proc = [s \in Spawns |-> "none"]
  /\ aborted = {} /\ stale = {} /\ armed = {} /\ checking = {}
  /\ kills = [k \in Callers |-> NoKill]
  /\ awaits = [c \in {"restart", "apply"} |-> 0]

Requests == Start \/ Restart \/ Stop \/ Remove \/ \E kd \in Kinds : Add(kd) \/ Change(kd)

GoesOn ==
  \/ \E k \in Callers : KillGoesOn(k)
  \/ RestartGoesOn \/ ApplyGoesOn \/ StopGoesOn
  \/ \E s \in Spawns : HealthGoesOn(s)

\* What a spawn or a stopping process comes to without anybody's doing.
Settles(s) == Attach(s) \/ LaunchFails(s) \/ Discard(s) \/ Discarded(s)

\* A process or its launch that fails on its own.
Failure ==
  \E s \in Spawns :
    \/ OpenFails(s) \/ Condemn(s)
    \/ s \notin aborted /\ GiveUp(s)
    \/ proc[s] = "live" /\ Exit(s)

Next ==
  \/ Requests \/ GoesOn \/ Failure
  \/ \E e \in Entries : RestartDue(e)
  \/ \E s \in Spawns :
       \/ Open(s) \/ Settles(s) \/ HealthDue(s) \/ Checked(s)
       \/ s \in aborted /\ GiveUp(s)
       \/ proc[s] = "stopping" /\ Exit(s)

Spec == Init /\ [][Next]_vars

\* The event loop serves every callback that stays due, whatever continuations run between:
\* timers fire, proxies, handshakes and pings have an end, and a process told to go is
\* killed at the latest after its grace.
Fairness ==
  /\ WF_vars(GoesOn)
  /\ \A e \in Entries : SF_vars(RestartDue(e))
  /\ \A s \in Spawns :
       /\ SF_vars(\/ Open(s) \/ Settles(s)
                  \/ s \in aborted /\ GiveUp(s)
                  \/ proc[s] = "stopping" /\ Exit(s))
       /\ SF_vars(HealthDue(s) \/ Checked(s))

LiveSpec == Spec /\ Fairness

-----------------------------------------------------------------------------
(***************************************************************************)
(* Properties.                                                             *)
(***************************************************************************)

\* The types of the entries, the spawns and the callers' kills.
TypeOK ==
  /\ mode \in {"new", "serving", "stopping", "stopped"}
  /\ current \in Entries \cup {0} /\ kind \in [Entries -> Kinds]
  /\ state \in [Entries -> {"stopped", "starting", "up", "down", "external"}]
  /\ launched \in [Entries -> Spawns \cup {0}] /\ starting \in [Entries -> Spawns \cup {0}]
  /\ restartTimer \subseteq Entries /\ healthTimer \in [Entries -> Spawns \cup {0}]
  /\ owner \in [Spawns -> Entries]
  /\ at \in [Spawns -> {"idle", "opening", "launching", "discarding"}]
  /\ proc \in [Spawns -> {"none", "live", "stopping"}]
  /\ aborted \subseteq Spawns /\ stale \subseteq Spawns
  /\ armed \subseteq Spawns /\ checking \subseteq Spawns
  /\ kills \in [Callers -> Kill] /\ awaits \in [{"restart", "apply"} -> Spawns \cup {0}]

\* No process is forgotten: one nobody has told to go is attached to the entry supervised
\* under the name, is being launched, or is held by a kill that will stop it.  Whatever
\* restart, reload, crash and health check ran into each other, none is overwritten and left
\* running.
NoneForgotten ==
  \A s \in Spawns : proc[s] = "live" =>
    \/ current = owner[s] /\ launched[owner[s]] = s
    \/ InFlight(s)
    \/ \E k \in Callers : kills[k].stops = s

\* Processes at work: neither told to go nor doomed with their launch.
AtWork == {s \in Spawns : proc[s] = "live" /\ s \notin aborted \cup stale}

\* A connector never has two processes at work, and its next one is not spawned before
\* one still starting is gone, however its entry was replaced: a further one that lives was
\* up and is on its way out.  Once a stop has begun none is at work.
OneAtATime ==
  /\ Cardinality(AtWork) <= (IF mode = "serving" THEN 1 ELSE 0)
  /\ Cardinality({s \in Spawns : InFlight(s)}) <= 1

\* A supervised connector is never stranded: it is up with its process attached, or
\* starting, or has a restart pending, or whoever stopped it will spawn it again.
NeverStranded ==
  mode = "serving" /\ current # 0 /\ Quiet =>
    LET e == current IN
      /\ state[e] = "up" <=> launched[e] # 0
      /\ state[e] = "starting" => starting[e] # 0 /\ starting[e] \notin stale
      /\ state[e] = "down" => e \in restartTimer
      /\ state[e] = "stopped" =>
           \/ kills[By("restart")].entry = e
           \/ kills[By("apply")].next = e
           \/ \E s \in Spawns : kills[Health(s)].entry = e /\ ~kills[Health(s)].stale

\* When stop() has returned, nobody still waits for a process of the supervised connector
\* to exit: stop() "waits for the processes to exit", also those a restart or a health
\* check was stopping.
StopWaits ==
  mode = "stopped" /\ current # 0 =>
    \A k \in Callers : kills[k].entry = current => kills[k].stops = 0

Undisturbed == <>[][~(Failure \/ Restart \/ Remove \/ \E kd \in Kinds : Add(kd) \/ Change(kd))]_vars

\* Once nothing fails or changes any more, a connector that is supervised comes up and
\* stays up, or the daemon stops.
ComesUp ==
  Undisturbed => <>[](mode # "serving" \/ current = 0 \/ state[current] \in {"up", "external"})

\* A stop returns, whatever it found in flight.
StopReturns == mode = "stopping" ~> mode = "stopped"
=============================================================================
