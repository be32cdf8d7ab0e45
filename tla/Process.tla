------------------------------ MODULE Process -------------------------------
(***************************************************************************)
(* One child of the core and the group it leads: a connector's program     *)
(* (connectors/stdio-transport.ts, connectors/acp.ts, connectors/launchers)*)
(* with what it started itself.  The core asks for the launch, watches the *)
(* exit, stops the group, and must not leave anything of it at work.       *)
(*                                                                         *)
(* The leader is a wrapper or the program; the mate is a process of its    *)
(* group; the stray left the group (setsid), where no group signal reaches *)
(* it, and holds the pipes.  A signal's victim is dead at once, its exit   *)
(* is seen later.  Waiting times are any.                                  *)
(***************************************************************************)
EXTENDS FiniteSets

CONSTANT Kinds  \* of launcher: "stdio" (MCP), "acp" (an agent), "none" (a plain process)

ProcessAssumption == Kinds \subseteq {"stdio", "acp", "none"}

VARIABLES
  kind,
  alive,    \* the processes that run
  swept,    \* the exit of the leader was seen and the rest of its group killed
  ended,    \* the pipes are closed: the launcher's `ended`
  launch,   \* what the supervisor's launch has come to
  aborted,  \* the launch is no longer wanted
  stop,     \* the stop's steps: closed stdin, SIGTERM, SIGKILL
  call,     \* an op, or a prompt, in flight
  proxy,    \* the network proxy of a sandboxed agent
  daemon    \* whether the core runs

vars == <<kind, alive, swept, ended, launch, aborted, stop, call, proxy, daemon>>

Group == {"leader", "mate"}
Stray == {"stray"}

TypeOK ==
  /\ kind \in Kinds /\ alive \subseteq Group \cup Stray
  /\ swept \in BOOLEAN /\ ended \in BOOLEAN /\ aborted \in BOOLEAN /\ daemon \in BOOLEAN
  /\ launch \in {"none", "proxied", "spawned", "failing", "up", "rejected", "unwanted"}
  /\ stop \in {"no", "stdin", "term", "kill", "done"}
  /\ call \in {"none", "flight", "failed"} /\ proxy \in {"none", "open", "closed"}

Init ==
  /\ kind \in Kinds /\ alive = {} /\ swept = FALSE /\ ended = FALSE /\ launch = "none"
  /\ aborted = FALSE /\ stop = "no" /\ call = "none" /\ proxy = "none" /\ daemon = TRUE

-----------------------------------------------------------------------------

\* A sandboxed agent's proxy opens first.
OpenProxy ==
  /\ daemon /\ launch = "none" /\ kind = "acp" /\ launch' = "proxied" /\ proxy' = "open"
  /\ UNCHANGED <<kind, alive, swept, ended, aborted, stop, call, daemon>>

\* The launch is aborted: stopped, killed or replaced.
Abort ==
  /\ daemon /\ launch \in {"none", "proxied", "spawned"} /\ ~aborted /\ aborted' = TRUE
  /\ UNCHANGED <<kind, alive, swept, ended, launch, stop, call, proxy, daemon>>

\* ... while the proxy was opening: nothing is started.
Unwanted ==
  /\ daemon /\ launch = "proxied" /\ aborted /\ launch' = "unwanted" /\ proxy' = "closed"
  /\ UNCHANGED <<kind, alive, swept, ended, aborted, stop, call, daemon>>

\* Spawned detached: it leads a group.  A plain process is up at once.
Spawn ==
  /\ daemon /\ launch = (IF kind = "acp" THEN "proxied" ELSE "none") /\ ~aborted
  /\ alive' = {"leader"} /\ launch' = IF kind = "none" THEN "up" ELSE "spawned"
  /\ UNCHANGED <<kind, swept, ended, aborted, stop, call, proxy, daemon>>

\* The leader starts another program, in its group or outside.
Forks(p) ==
  /\ "leader" \in alive /\ p \in {"mate", "stray"} /\ alive' = alive \cup {p}
  /\ UNCHANGED <<kind, swept, ended, launch, aborted, stop, call, proxy, daemon>>

Exits(p) ==
  /\ p \in alive /\ alive' = alive \ {p}
  /\ UNCHANGED <<kind, swept, ended, launch, aborted, stop, call, proxy, daemon>>

\* `initialize` is answered.  An abort that came just before still rejects an MCP launch.
Initialized ==
  /\ daemon /\ launch = "spawned" /\ "leader" \in alive /\ ~(aborted /\ kind = "stdio")
  /\ launch' = "up"
  /\ UNCHANGED <<kind, alive, swept, ended, aborted, stop, call, proxy, daemon>>

\* It is not: exit, time-out, wrong version, abort.  MCP closes the transport step by step,
\* an agent is killed at once.
Fails ==
  /\ daemon /\ launch = "spawned" /\ launch' = "failing"
  /\ IF kind = "acp" THEN alive' = alive \ Group /\ stop' = "kill"
     ELSE stop' = "stdin" /\ UNCHANGED alive
  /\ UNCHANGED <<kind, swept, ended, aborted, call, proxy, daemon>>

\* The launch rejects; an aborted one, or an MCP server's, only once the process is gone.
Rejects ==
  /\ daemon /\ launch = "failing" /\ ((aborted \/ kind = "stdio") => ended)
  /\ launch' = "rejected" /\ stop' = "done"
  /\ proxy' = IF proxy = "open" THEN "closed" ELSE proxy
  /\ UNCHANGED <<kind, alive, swept, ended, aborted, call, daemon>>

Call ==
  /\ daemon /\ launch = "up" /\ kind # "none" /\ call = "none" /\ ~ended /\ call' = "flight"
  /\ UNCHANGED <<kind, alive, swept, ended, launch, aborted, stop, proxy, daemon>>

\* The answer, or the call's own time-out.
Answered ==
  /\ daemon /\ call = "flight" /\ call' = "none"
  /\ UNCHANGED <<kind, alive, swept, ended, launch, aborted, stop, proxy, daemon>>

-----------------------------------------------------------------------------

\* Mutant: the exit of the leader is taken for the end of its group.
Unswept == alive

\* The leader has exited: the rest of its group is killed.
Swept == alive \ Group
Sweep ==
  /\ daemon /\ launch \notin {"none", "proxied", "unwanted"} /\ "leader" \notin alive /\ ~swept
  /\ swept' = TRUE /\ alive' = Swept
  /\ UNCHANGED <<kind, ended, launch, aborted, stop, call, proxy, daemon>>

\* The pipes close with their last holder, or are released after a grace; the op in flight
\* fails, and the proxy goes with the process it served.
Release ==
  /\ daemon /\ swept /\ ~ended /\ ended' = TRUE
  /\ call' = IF call = "flight" THEN "failed" ELSE call
  /\ proxy' = IF proxy = "open" THEN "closed" ELSE proxy
  /\ UNCHANGED <<kind, alive, swept, launch, aborted, stop, daemon>>

\* stop(): an MCP server's stdin is closed first, the others get SIGTERM at once, which any
\* of the group may ignore; an agent's connection closes at once.
BeginStop ==
  /\ daemon /\ launch = "up" /\ stop = "no"
  /\ IF kind = "stdio"
     THEN stop' = "stdin" /\ UNCHANGED <<alive, call>>
     ELSE /\ stop' = "term" /\ \E dead \in SUBSET (alive \cap Group) : alive' = alive \ dead
          /\ call' = IF kind = "acp" /\ call = "flight" THEN "failed" ELSE call
  /\ UNCHANGED <<kind, swept, ended, launch, aborted, proxy, daemon>>

\* ... SIGTERM, then SIGKILL, each when a grace passed and the pipes are still open ...
Terminate ==
  /\ daemon /\ stop = "stdin" /\ ~ended /\ stop' = "term"
  /\ \E dead \in SUBSET (alive \cap Group) : alive' = alive \ dead
  /\ UNCHANGED <<kind, swept, ended, launch, aborted, call, proxy, daemon>>
Kill ==
  /\ daemon /\ stop = "term" /\ ~ended /\ stop' = "kill" /\ alive' = alive \ Group
  /\ UNCHANGED <<kind, swept, ended, launch, aborted, call, proxy, daemon>>

\* ... until it has ended.
Stopped ==
  /\ daemon /\ stop \in {"stdin", "term", "kill"} /\ launch = "up" /\ ended /\ stop' = "done"
  /\ UNCHANGED <<kind, alive, swept, ended, launch, aborted, call, proxy, daemon>>

\* The daemon exits without a stop: the groups still listed are killed.
Listed == launch \notin {"none", "proxied", "unwanted"} /\ ~swept
DaemonExits ==
  /\ daemon /\ daemon' = FALSE
  /\ alive' = IF Listed THEN alive \ Group ELSE alive
  /\ UNCHANGED <<kind, swept, ended, launch, aborted, stop, call, proxy>>

Next ==
  \/ OpenProxy \/ Abort \/ Unwanted \/ Spawn \/ Initialized \/ Fails \/ Rejects
  \/ \E p \in Group \cup Stray : Forks(p) \/ Exits(p)
  \/ Call \/ Answered \/ Sweep \/ Release \/ BeginStop \/ Terminate \/ Kill \/ Stopped
  \/ DaemonExits

Spec == Init /\ [][Next]_vars

-----------------------------------------------------------------------------

\* Once the core says a process has ended, or its launch has failed, or the daemon is gone,
\* nothing of its group is at work, no op waits for it and its proxy is closed
\* (process-group.ts, 54-58; launchers/mcp.ts, 23-26 and 62; launchers/acp.ts, 73).
GoneWhenSaid ==
  /\ (ended \/ stop = "done" \/ launch \in {"rejected", "unwanted"} \/ ~daemon)
       => alive \cap Group = {}
  /\ ended => call # "flight" /\ proxy # "open"
  /\ launch \in {"rejected", "unwanted"} => proxy # "open"
=============================================================================
