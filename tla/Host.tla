-------------------------------- MODULE Host --------------------------------
(***************************************************************************)
(* The connector host (packages/core/src/connectors/host.ts, serveSocket): *)
(* a socket on which the core reaches a connector of a systemd unit.  Each *)
(* connection gets a process of its own, and replaces the one before it.   *)
(*                                                                         *)
(* Connections are numbered as they come; the process of one has its       *)
(* number.                                                                 *)
(***************************************************************************)
EXTENDS Naturals, FiniteSets

CONSTANT Conns  \* bound: 1 .. n, the connections the core makes

HostAssumption == Conns \subseteq Nat \ {0} /\ IsFiniteSet(Conns)

VARIABLES
  sock,        \* of a connection; "closed" before its close event, "gone" after
  proc,        \* of its process; "terminated" has been sent SIGTERM
  waitsFor,    \* the process a connection waits for, 0 when it does not
  current,     \* the connection that has the session, or 0
  generation,
  serving      \* the server accepts

vars == <<sock, proc, waitsFor, current, generation, serving>>

TypeOK ==
  /\ sock \in [Conns -> {"none", "open", "closed", "gone"}]
  /\ proc \in [Conns -> {"none", "alive", "terminated", "dead"}]
  /\ waitsFor \in [Conns -> Conns \cup {0}] /\ current \in Conns \cup {0}
  /\ generation \in Nat /\ serving \in BOOLEAN

Init ==
  /\ sock = [c \in Conns |-> "none"] /\ proc = [c \in Conns |-> "none"]
  /\ waitsFor = [c \in Conns |-> 0]
  /\ current = 0 /\ generation = 0 /\ serving = TRUE

Terminated(p) == IF p = "alive" THEN "terminated" ELSE p

\* Mutant: a connection whose wait is over does not look whether it is still the newest.
SpawnsRegardless(c) == sock[c] = "open"

\* Only the newest connection, and only while it is open, gets a process.
Spawns(c) == c = generation /\ sock[c] = "open"

\* The connection's session begins, or the connection is given up: overtaken, closed
\* meanwhile, or refused by prepareLaunch().
Session(c, prepared) ==
  IF Spawns(c) /\ prepared
  THEN /\ proc' = [proc EXCEPT ![c] = "alive"] /\ current' = c
       /\ UNCHANGED sock
  ELSE /\ sock' = [sock EXCEPT ![c] = "gone"]
       /\ UNCHANGED <<proc, current>>

-----------------------------------------------------------------------------

\* onConnection(), with a session to drop first: it waits for that one's process.
Replace(c) ==
  /\ serving /\ sock[c] = "none" /\ c = generation + 1 /\ current # 0
  /\ generation' = c /\ current' = 0
  /\ sock' = [sock EXCEPT ![c] = "open", ![current] = "gone"]
  /\ proc' = [proc EXCEPT ![current] = Terminated(@)]
  /\ waitsFor' = [waitsFor EXCEPT ![c] = current]
  /\ UNCHANGED serving

\* onConnection(), with none: the session begins at once.
Connect(c, prepared) ==
  /\ serving /\ sock[c] = "none" /\ c = generation + 1 /\ current = 0
  /\ generation' = c
  /\ sock' = [sock EXCEPT ![c] = IF prepared THEN "open" ELSE "gone"]
  /\ proc' = [proc EXCEPT ![c] = IF prepared THEN "alive" ELSE @]
  /\ current' = IF prepared THEN c ELSE 0
  /\ UNCHANGED <<waitsFor, serving>>

\* The wait is over.
Continue(c, prepared) ==
  /\ waitsFor[c] # 0 /\ proc[waitsFor[c]] \in {"none", "dead"}
  /\ waitsFor' = [waitsFor EXCEPT ![c] = 0]
  /\ Session(c, prepared)
  /\ UNCHANGED <<generation, serving>>

\* The core closes the connection, before or during its session.
CoreCloses(c) ==
  /\ sock[c] = "open"
  /\ sock' = [sock EXCEPT ![c] = "closed"]
  /\ UNCHANGED <<proc, waitsFor, current, generation, serving>>

\* Its close event; a connection without a session has no listener.
OnClose(c) ==
  /\ sock[c] = "closed" /\ waitsFor[c] = 0
  /\ sock' = [sock EXCEPT ![c] = "gone"]
  /\ current' = IF current = c THEN 0 ELSE current
  /\ proc' = [proc EXCEPT ![c] = Terminated(@)]
  /\ UNCHANGED <<waitsFor, generation, serving>>

\* The process exits by itself or by a signal (exitOf, terminate); its socket is ended.
Exit(c) ==
  /\ proc[c] \in {"alive", "terminated"}
  /\ proc' = [proc EXCEPT ![c] = "dead"]
  /\ sock' = [sock EXCEPT ![c] = IF @ = "open" THEN "closed" ELSE @]
  /\ UNCHANGED <<waitsFor, current, generation, serving>>

\* stop(): the session is dropped, a connection that waits gives up when its wait is over.
Stop ==
  /\ serving /\ serving' = FALSE
  /\ generation' = generation + 1 /\ current' = 0
  /\ IF current = 0 THEN UNCHANGED <<sock, proc>>
     ELSE /\ sock' = [sock EXCEPT ![current] = "gone"]
          /\ proc' = [proc EXCEPT ![current] = Terminated(@)]
  /\ UNCHANGED waitsFor

Next ==
  \/ \E c \in Conns : \/ Replace(c) \/ CoreCloses(c) \/ OnClose(c) \/ Exit(c)
                      \/ \E prepared \in BOOLEAN : Connect(c, prepared) \/ Continue(c, prepared)
  \/ Stop

Spec == Init /\ [][Next]_vars

-----------------------------------------------------------------------------

\* However connections, exits and the stop overtake each other while an old process is being
\* awaited, one process at most is not being terminated, it is the session's or its connection
\* has closed, and no connection stays open without a session or a wait.
OneSession ==
  /\ Cardinality({c \in Conns : proc[c] = "alive"}) <= 1
  /\ \A c \in Conns : /\ proc[c] = "alive" => current = c
                      /\ sock[c] = "open" => current = c \/ waitsFor[c] # 0
=============================================================================
