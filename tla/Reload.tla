------------------------------- MODULE Reload -------------------------------
(***************************************************************************)
(* A reload of the configuration (packages/core/src/core.ts, reload and    *)
(* applyConnectors; daemon.ts, reload) and the stop it may meet.  Reloads  *)
(* take turns.  One that waits for processes holds the executor, and puts  *)
(* the previous set back when a step fails.                                *)
(*                                                                         *)
(* A configuration is a version of the files.  agent.yaml and the          *)
(* manifests are read when a reload is asked for, the tasks files when its *)
(* turn comes.                                                             *)
(***************************************************************************)
EXTENDS Naturals, Sequences

CONSTANTS
  Versions,  \* versions of the files, 0 .. n
  Valid,     \* pairs of an agent.yaml and tasks files that load and cross-check together
  Keys,      \* built-in pollers: a changed manifest has a key of its own
  Builtin,   \* the pollers of a version
  MaxQueue   \* bound: reloads asked for and not begun

ReloadAssumption ==
  /\ 0 \in Versions /\ Versions \subseteq Nat /\ MaxQueue \in Nat
  /\ Valid \subseteq Versions \X Versions /\ <<0, 0>> \in Valid
  /\ Builtin \in [Versions -> SUBSET Keys]

VARIABLES
  disk,     \* the version of the files
  queue,    \* versions read by the reloads that wait for their turn
  turn,     \* the reload whose turn it is
  agents,   \* the agent defaults of the supervisor
  conns,    \* the connector set of the supervisor
  pollers,  \* the pollers the core lists
  running,  \* the pollers whose timer is armed
  active,   \* what the rest of the core uses: agent.yaml, the tasks, the tasks cron jobs are of
  broken,   \* since the last good reload an undo or a switch failed
  life

vars == <<disk, queue, turn, agents, conns, pollers, running, active, broken, life>>

Idle == [step |-> "idle", agent |-> 0, tasks |-> 0]
\* executor.hold(): no run starts meanwhile.
Held == turn.step # "idle"
\* What "before" and the manifests of the core are throughout a reload.
Before == active.agent

TypeOK ==
  /\ {disk, agents, conns} \subseteq Versions /\ queue \in Seq(Versions)
  /\ turn.step \in {"idle", "configure", "apply", "stopPollers", "startPollers", "switch",
                    "undo", "undoPollers"}
  /\ pollers \subseteq Keys /\ running \subseteq Keys /\ broken \in BOOLEAN
  /\ life \in {"up", "stopping", "stopped"}

Init ==
  /\ disk = 0 /\ queue = <<>> /\ turn = Idle
  /\ agents = 0 /\ conns = 0 /\ pollers = Builtin[0] /\ running = Builtin[0]
  /\ active = [agent |-> 0, tasks |-> 0, cron |-> 0]
  /\ broken = FALSE /\ life = "up"

Goes(step) == turn' = [turn EXCEPT !.step = step]
Done == turn' = Idle
CoreStays == UNCHANGED <<active, life, disk, queue>>

-----------------------------------------------------------------------------

Edit ==
  /\ disk + 1 \in Versions /\ disk' = disk + 1
  /\ UNCHANGED <<queue, turn, agents, conns, pollers, running, active, broken, life>>

\* A SIGHUP or POST /v1/reload: agent.yaml and the manifests are read at once.
Ask ==
  /\ life # "stopped" /\ Len(queue) < MaxQueue
  /\ queue' = Append(queue, disk)
  /\ UNCHANGED <<disk, turn, agents, conns, pollers, running, active, broken, life>>

\* load() and crossCheck(): the tasks against the agent.yaml they will run with.
Checked(agent, tasks) == <<agent, tasks>> \in Valid

\* Its turn: what does not load or cross-check is refused before anything changes.
Turn ==
  /\ ~Held /\ queue # <<>>
  /\ queue' = Tail(queue)
  /\ turn' = IF Checked(Head(queue), disk)
             THEN [step |-> "configure", agent |-> Head(queue), tasks |-> disk] ELSE Idle
  /\ UNCHANGED <<disk, agents, conns, pollers, running, active, broken, life>>

\* supervisor.configure(), which swallows failed restarts.
Configure ==
  /\ turn.step = "configure" /\ Goes("apply")
  /\ agents' = turn.agent
  /\ UNCHANGED <<conns, pollers, running, broken>> /\ CoreStays

\* supervisor.apply(): the set changes at once, then processes are awaited, in vain or not.
Apply(ok) ==
  /\ turn.step = "apply" /\ Goes(IF ok THEN "stopPollers" ELSE "undo")
  /\ conns' = turn.agent
  /\ UNCHANGED <<agents, pollers, running, broken>> /\ CoreStays

\* applyPollers(), up to its await.
StopPollers ==
  /\ turn.step = "stopPollers" /\ Goes("startPollers")
  /\ running' = running \ (pollers \ Builtin[turn.agent])
  /\ UNCHANGED <<agents, conns, pollers, broken>> /\ CoreStays

\* The pollers a call of applyPollers() starts after its await, all or up to a throw.
Started(v) == SUBSET (Builtin[v] \ pollers)
AllStarted(v, S) == (pollers \cap Builtin[v]) \cup S = Builtin[v]

\* Mutant: the list is replaced once everything has started.
ListsAtTheEnd(v, S) ==
  /\ running' = running \cup S
  /\ pollers' = IF AllStarted(v, S) THEN Builtin[v] ELSE pollers

\* The list follows what runs, whether or not a start throws.
Lists(v, S) ==
  /\ running' = running \cup S
  /\ pollers' = (pollers \cap Builtin[v]) \cup S

StartPollers ==
  /\ turn.step = "startPollers"
  /\ \E S \in Started(turn.agent) :
       /\ Lists(turn.agent, S)
       /\ Goes(IF AllStarted(turn.agent, S) THEN "switch" ELSE "undo")
  /\ UNCHANGED <<agents, conns, broken>> /\ CoreStays

\* switchTo(), one synchronous step.  The scheduler writes cursors as it arms jobs: a store
\* that fails leaves the tasks after it without one, and nothing is put back.
Switch(stored) ==
  /\ turn.step = "switch" /\ Done
  /\ active' = [agent |-> turn.agent, tasks |-> turn.tasks,
                cron |-> IF stored THEN turn.tasks ELSE active.cron]
  /\ broken' = ~stored
  /\ UNCHANGED <<disk, queue, agents, conns, pollers, running, life>>

\* The undo: the previous agents and connectors; it may fail itself.
Undo(ok) ==
  /\ turn.step = "undo"
  /\ agents' = Before /\ conns' = Before
  /\ running' = IF ok THEN running \ (pollers \ Builtin[Before]) ELSE running
  /\ IF ok THEN Goes("undoPollers") /\ UNCHANGED broken ELSE Done /\ broken' = TRUE
  /\ UNCHANGED pollers /\ CoreStays

UndoPollers ==
  /\ turn.step = "undoPollers" /\ Done
  /\ \E S \in Started(Before) :
       /\ Lists(Before, S)
       /\ broken' = (broken \/ ~AllStarted(Before, S))
  /\ UNCHANGED <<agents, conns>> /\ CoreStays

\* stop(): it does not wait for a reload.
Stop ==
  /\ life = "up" /\ life' = "stopping"
  /\ UNCHANGED <<disk, queue, turn, agents, conns, pollers, running, active, broken>>

\* The executor has stopped: the pollers listed now, then the supervisor and the store.
Stopped ==
  /\ life = "stopping" /\ life' = "stopped"
  /\ running' = running \ pollers
  /\ UNCHANGED <<disk, queue, turn, agents, conns, pollers, active, broken>>

Next ==
  \/ Edit \/ Ask \/ Turn \/ Configure \/ StopPollers \/ StartPollers \/ UndoPollers
  \/ \E ok \in BOOLEAN : Apply(ok) \/ Switch(ok) \/ Undo(ok)
  \/ Stop \/ Stopped

Spec == Init /\ [][Next]_vars

-----------------------------------------------------------------------------

\* No run starts on half a reload: whenever the executor is not held, the agents, the
\* connectors, the pollers that run, the settings, the tasks and their cron jobs are those
\* of one reload that was checked as a whole, through failures and undos.  Only after an undo or
\* a switch that failed itself may they differ, until the next good reload (core.ts, 641).
NoHalfReload ==
  ~Held /\ ~broken =>
    /\ Checked(active.agent, active.tasks)
    /\ agents = active.agent /\ conns = active.agent /\ pollers = Builtin[active.agent]
    /\ life = "up" => running = pollers /\ active.cron = active.tasks
=============================================================================
