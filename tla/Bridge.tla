------------------------------- MODULE Bridge -------------------------------
(***************************************************************************)
(* The tool bridge of an agent run (connectors/mcp-bridge.ts): a socket    *)
(* on which the agent's proxies, having said hello with the run's token    *)
(* and a granted connector, list that connector's ops and call those       *)
(* granted.  The run may abort, the agent may hang up, and the bridge is   *)
(* closed when the session is, at any point of a call.                     *)
(***************************************************************************)
EXTENDS Naturals, FiniteSets

CONSTANTS
  Conns,       \* connections, each of one call
  Connectors,
  Ops,
  Grants,      \* a function from the granted connectors to the ops named, {} for all
  Serves       \* a function from connectors to the ops they list

BridgeAssumption ==
  /\ DOMAIN Grants \subseteq Connectors /\ DOMAIN Serves = Connectors
  /\ \A k \in DOMAIN Grants : Grants[k] \subseteq Ops
  /\ \A k \in Connectors : Serves[k] \subseteq Ops

VARIABLES
  bridge,  \* "opening", "open", "closing", "closed"
  run,     \* whether the run's signal is aborted
  sock,    \* a connection: "none", "hello", "served", "gone"
  serves,  \* the connector it is served
  call,    \* its call: "none", "listing", "calling", "answered", "refused", "dropped"
  op,      \* the op it calls
  ran      \* the calls forwarded: connector, op and how they ended

vars == <<bridge, run, sock, serves, call, op, ran>>

TypeOK ==
  /\ bridge \in {"opening", "open", "closing", "closed"} /\ run \in {"on", "aborted"}
  /\ sock \in [Conns -> {"none", "hello", "served", "gone"}]
  /\ serves \in [Conns -> Connectors \cup {"none"}] /\ op \in [Conns -> Ops \cup {"none"}]
  /\ call \in [Conns -> {"none", "listing", "calling", "answered", "refused", "dropped"}]

Init ==
  /\ bridge = "opening" /\ run = "on" /\ sock = [c \in Conns |-> "none"]
  /\ serves = [c \in Conns |-> "none"] /\ call = [c \in Conns |-> "none"]
  /\ op = [c \in Conns |-> "none"] /\ ran = {}

\* What a run may call: no ops named means every op the connector lists.
Allows(k, o) == Grants[k] = {} \/ o \in Grants[k]
InFlight == {"listing", "calling"}
Live(c) == sock[c] = "served"

\* A socket that closes aborts the request on it.
Hung(calls, gone) ==
  [c \in Conns |-> IF c \in gone /\ calls[c] \in InFlight THEN "dropped" ELSE calls[c]]

-----------------------------------------------------------------------------

Listen ==
  /\ bridge = "opening" /\ bridge' = "open"
  /\ UNCHANGED <<run, sock, serves, call, op, ran>>

Connects(c) ==
  /\ bridge = "open" /\ sock[c] = "none" /\ sock' = [sock EXCEPT ![c] = "hello"]
  /\ UNCHANGED <<bridge, run, serves, call, op, ran>>

\* The hello line; without the token, for another connector, too long or too late the
\* connection is dropped.
Hello(c, token, k) ==
  /\ sock[c] = "hello"
  /\ IF token /\ k \in DOMAIN Grants
     THEN sock' = [sock EXCEPT ![c] = "served"] /\ serves' = [serves EXCEPT ![c] = k]
     ELSE sock' = [sock EXCEPT ![c] = "gone"] /\ UNCHANGED serves
  /\ UNCHANGED <<bridge, run, call, op, ran>>

\* A call: without named ops the connector is asked for what it lists first.  With the run
\* aborted the signal is too, and what is asked with it fails at once.
Calls(c, o) ==
  /\ Live(c) /\ call[c] = "none" /\ op' = [op EXCEPT ![c] = o]
  /\ call' = [call EXCEPT ![c] =
       IF ~Allows(serves[c], o) THEN "refused"
       ELSE IF run = "aborted" THEN "dropped"
       ELSE IF Grants[serves[c]] = {} THEN "listing" ELSE "calling"]
  /\ UNCHANGED <<bridge, run, sock, serves, ran>>

\* Mutant: any op goes where none is named.
KnownWithoutList(k, o) == TRUE

\* The list is there: only an op on it is forwarded.
Known(k, o) == o \in Serves[k]
Listed(c) ==
  /\ call[c] = "listing"
  /\ call' = [call EXCEPT ![c] = IF Known(serves[c], op[c]) THEN "calling" ELSE "refused"]
  /\ UNCHANGED <<bridge, run, sock, serves, op, ran>>

\* The connector answers, or refuses an op it does not serve.
Returns(c) ==
  /\ call[c] = "calling" /\ call' = [call EXCEPT ![c] = "answered"]
  /\ ran' = ran \cup {<<serves[c], op[c]>>}
  /\ UNCHANGED <<bridge, run, sock, serves, op>>
Fails(c) ==
  /\ call[c] \in InFlight /\ call' = [call EXCEPT ![c] = "answered"]
  /\ UNCHANGED <<bridge, run, sock, serves, op, ran>>

\* The agent hangs up: its call is aborted.
HangsUp(c) ==
  /\ sock[c] \in {"hello", "served"} /\ sock' = [sock EXCEPT ![c] = "gone"]
  /\ call' = Hung(call, {c})
  /\ UNCHANGED <<bridge, run, serves, op, ran>>

\* The run is aborted: so is every call in flight.
Abort ==
  /\ run = "on" /\ run' = "aborted" /\ call' = Hung(call, Conns)
  /\ UNCHANGED <<bridge, sock, serves, op, ran>>

\* Mutant: the connections are left to the agent.
DroppedNone == {}

\* close(): every connection is dropped, no other is accepted, then the socket goes.
Dropped == {c \in Conns : sock[c] \in {"hello", "served"}}
Close ==
  /\ bridge = "open" /\ bridge' = "closing"
  /\ sock' = [c \in Conns |-> IF c \in Dropped THEN "gone" ELSE sock[c]]
  /\ call' = Hung(call, Dropped)
  /\ UNCHANGED <<run, serves, op, ran>>
Closed ==
  /\ bridge = "closing" /\ bridge' = "closed"
  /\ UNCHANGED <<run, sock, serves, call, op, ran>>

Next ==
  \/ Listen \/ Abort \/ Close \/ Closed
  \/ \E c \in Conns :
       \/ Connects(c) \/ Listed(c) \/ Returns(c) \/ Fails(c) \/ HangsUp(c)
       \/ \E t \in BOOLEAN, k \in Connectors : Hello(c, t, k)
       \/ \E o \in Ops : Calls(c, o)

Spec == Init /\ [][Next]_vars

-----------------------------------------------------------------------------

\* Only what the run was granted and the connector lists is called (mcp-bridge.ts, 8-12);
\* once the run is aborted, the bridge closed or the agent gone no call goes on.
OnlyGrantedCalls ==
  /\ \A x \in ran : x[1] \in DOMAIN Grants /\ Allows(x[1], x[2])
  /\ \A x \in ran : Grants[x[1]] = {} => x[2] \in Serves[x[1]]
  /\ \A c \in Conns : call[c] \in InFlight => sock[c] = "served" /\ bridge = "open" /\ run = "on"
=============================================================================
