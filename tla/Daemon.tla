------------------------------- MODULE Daemon -------------------------------
(***************************************************************************)
(* The life of the daemon (packages/core/src/main.ts, daemon.ts,           *)
(* reload-signal.ts, api/server.ts): the core starts, the API socket is    *)
(* bound, a SIGHUP is remembered until then, and a stop closes all of it.  *)
(* A daemon killed leaves its socket file behind, and a second one may be  *)
(* started beside the first, by hand beside the unit; two that bind or     *)
(* close at the same moment are left out (MayAct).                         *)
(***************************************************************************)
EXTENDS Naturals, FiniteSets

CONSTANT Daemons

DaemonAssumption == "nobody" \notin Daemons

VARIABLES
  phase,
  core,      \* the daemons whose core runs: executor, connectors, pollers
  accepts,   \* those whose server accepts connections
  file,      \* who bound the socket file there is
  hup,       \* SIGHUP came and its reload has not begun
  refused,   \* another daemon listens, it was told
  rival      \* one did when it looked

vars == <<phase, core, accepts, file, hup, refused, rival>>

Nobody == "nobody"
Binding == {"probe", "clear", "rebind"}
Closing == {"closing", "unlink"}

TypeOK ==
  /\ phase \in [Daemons -> {"off", "starting", "started", "bound", "up", "unwind", "stopping",
                            "coreStop", "gone", "failed", "killed"} \cup Binding \cup Closing]
  /\ core \subseteq Daemons /\ accepts \subseteq Daemons /\ file \in Daemons \cup {Nobody}
  /\ hup \subseteq Daemons /\ refused \subseteq Daemons /\ rival \subseteq Daemons

\* A socket file may be left from a daemon that was killed before.
Init ==
  /\ phase = [d \in Daemons |-> "off"] /\ core = {} /\ accepts = {}
  /\ file \in Daemons \cup {Nobody} /\ hup = {} /\ refused = {} /\ rival = {}

Goes(d, p) == phase' = [phase EXCEPT ![d] = p]

\* The steps of one daemon's binding or closing are not mixed with another's.
MayAct(d) == \A e \in Daemons \ {d} : phase[e] \notin Binding \cup Closing

-----------------------------------------------------------------------------
\* main, startDaemon: SIGHUP is listened for first; then the core starts, before the socket.
Start(d) ==
  /\ phase[d] \in {"off", "gone", "failed", "killed"} /\ Goes(d, "starting")
  /\ refused' = refused \ {d} /\ rival' = rival \ {d} /\ hup' = hup \ {d}
  /\ UNCHANGED <<core, accepts, file>>

CoreStart(d) ==
  /\ phase[d] = "starting"
  /\ \/ Goes(d, "started") /\ core' = core \cup {d}
     \/ Goes(d, "unwind") /\ core' \in {core, core \cup {d}}
  /\ UNCHANGED <<accepts, file, hup, refused, rival>>

Bound(d) == file' = d /\ accepts' = accepts \cup {d} /\ Goes(d, "bound")

Bind(d) ==
  /\ phase[d] \in {"started", "rebind"} /\ MayAct(d)
  /\ \/ file = Nobody /\ Bound(d)
     \/ file # Nobody /\ Goes(d, IF phase[d] = "started" THEN "probe" ELSE "unwind")
        /\ UNCHANGED <<file, accepts>>
     \/ Goes(d, "unwind") /\ UNCHANGED <<file, accepts>>
  /\ UNCHANGED <<core, hup, refused, rival>>

\* socketInUse: something accepts on the path.
InUse == file \in accepts
\* Mutant: the file is taken for stale without a probe.
InUseNever == FALSE
Answers == InUse

Probe(d) ==
  /\ phase[d] = "probe"
  /\ Goes(d, IF Answers THEN "unwind" ELSE "clear")
  /\ refused' = IF Answers THEN refused \cup {d} ELSE refused
  /\ rival' = IF file \in accepts THEN rival \cup {d} ELSE rival
  /\ UNCHANGED <<core, accepts, file, hup>>

ClearStale(d) ==
  /\ phase[d] = "clear" /\ file' = Nobody /\ Goes(d, "rebind")
  /\ UNCHANGED <<core, accepts, hup, refused, rival>>

\* The metrics address comes last; then main replays a SIGHUP that came during the start.
Replayed(d) == hup' = hup \ {d}
\* Mutant: what came during the start is dropped.
NotReplayed(d) == UNCHANGED hup
Replay(d) == Replayed(d)

Up(d) ==
  /\ phase[d] = "bound"
  /\ \/ Goes(d, "up") /\ Replay(d)
     \/ Goes(d, "unwind") /\ UNCHANGED hup
  /\ UNCHANGED <<core, accepts, file, refused, rival>>

\* Remembered before the daemon is up, a reload begun after.
Sighup(d) ==
  /\ phase[d] \in {"starting", "started", "bound", "up"} \cup Binding
  /\ hup' = IF phase[d] = "up" THEN hup \ {d} ELSE hup \cup {d}
  /\ UNCHANGED <<phase, core, accepts, file, refused, rival>>

\* stop, and the unwinding of a start that failed: metrics, API, core.
Stop(d) ==
  /\ phase[d] = "up" /\ Goes(d, "stopping")
  /\ UNCHANGED <<core, accepts, file, hup, refused, rival>>

\* close: a server that does not listen has nothing to close, and the file is not its own.
HasClosing(d) == d \in accepts
\* Mutant: a close removes the file whoever owns it.
HasAlways(d) == TRUE
Closes(d) == HasClosing(d)

CloseApi(d) ==
  /\ phase[d] \in {"unwind", "stopping"} /\ MayAct(d)
  /\ Goes(d, IF Closes(d) THEN "closing" ELSE "coreStop")
  /\ UNCHANGED <<core, accepts, file, hup, refused, rival>>

\* The runtime unlinks the path when the server closes, then close removes it once more.
CloseServer(d) ==
  /\ phase[d] = "closing" /\ Goes(d, "unlink")
  /\ accepts' = accepts \ {d} /\ file' = IF d \in accepts THEN Nobody ELSE file
  /\ UNCHANGED <<core, hup, refused, rival>>

Unlink(d) ==
  /\ phase[d] = "unlink" /\ Goes(d, "coreStop") /\ file' = Nobody
  /\ UNCHANGED <<core, accepts, hup, refused, rival>>

CoreStop(d) ==
  /\ phase[d] = "coreStop" /\ core' = core \ {d}
  /\ Goes(d, IF d \in refused THEN "failed" ELSE "gone")
  /\ UNCHANGED <<accepts, file, hup, refused, rival>>

\* kill -9, a stop past its deadline, or a SIGTERM before the handlers are there.
Kill(d) ==
  /\ phase[d] \notin {"off", "gone", "failed", "killed"} /\ Goes(d, "killed")
  /\ core' = core \ {d} /\ accepts' = accepts \ {d} /\ hup' = hup \ {d}
  /\ UNCHANGED <<file, refused, rival>>

Next ==
  \E d \in Daemons :
    \/ Start(d) \/ CoreStart(d) \/ Bind(d) \/ Probe(d) \/ ClearStale(d) \/ Up(d) \/ Sighup(d)
    \/ Stop(d) \/ CloseApi(d) \/ CloseServer(d) \/ Unlink(d) \/ CoreStop(d) \/ Kill(d)

Spec == Init /\ [][Next]_vars

-----------------------------------------------------------------------------
\* A daemon that is up is reached through the socket: neither a second one that starts beside
\* it, nor the failed start's own clean-up, takes its file; and a start is refused only for
\* one that was there, never for a file a killed daemon left.
SocketIsKept ==
  \A d \in Daemons : /\ phase[d] = "up" => d \in accepts /\ file = d
                     /\ d \in refused => d \in rival

\* startDaemon: what a failed start or a stop has opened is closed, the socket file too.
NothingLeftOpen ==
  \A d \in Daemons : phase[d] \in {"gone", "failed"} => d \notin core \cup accepts

\* reload-signal.ts: a SIGHUP during the start is not lost.
HupNotLost == \A d \in Daemons : phase[d] = "up" => d \notin hup
=============================================================================
